---- MODULE Spec2Model ----
(***************************************************************************)
(* State-machine model of the exposure-notification prototype:            *)
(*   - the diagnosis server's chunk store (diagnosisserver/src/state.rs), *)
(*   - the participant's updater and event loop (client/src/updater.rs,   *)
(*     client/src/state.rs).                                               *)
(* Time is counted in ticks; a chunk covers ChunkPeriod ticks.             *)
(***************************************************************************)
EXTENDS Integers, Sequences, FiniteSets, TLC

(***************************************************************************)
(* Bounds of the model.                                                    *)
(***************************************************************************)
\* ticks covered by one chunk (SystemParams.chunk_period, scaled down)
ChunkPeriod == 2
\* retention period in chunk periods (infection_period * tekrp, scaled down)
RetentionChunks == 3
\* the clock stops here
MaxTime == 8
\* ticks by which the rotator may be late after its sleep
MaxLag == 1
\* upload calls per behaviour of the chunk-store specification
MaxUploads == 2
\* number of distinct temporary exposure keys uploaded to the server
NumTeks == 2

RetentionPeriod == RetentionChunks * ChunkPeriod

TEKs == 1..NumTeks
ComputationIds == 0..MaxUploads
Handlers == {"h1", "h2"}
NoTask == "none"
\* `from` values a download may carry: before, inside and after every chunk
FromValues ==
    {start - 5 * ChunkPeriod : start \in 0..(ChunkPeriod - 1)} \cup 0..MaxTime
Lists == {"Blacklist", "Greylist"}

VARIABLES
    now,                  \* Utc::now(), in ticks
    current_chunk,        \* DiagnosisServerState.current_chunk
    done_chunks,          \* DiagnosisServerState.done_chunks.inner, newest first
    computation_id_seed,  \* DiagnosisServerState.computation_id_seed
    mutex,                \* holder of each tokio Mutex of the server
    rotator,              \* position of the task spawned by update()
    handler,              \* position and locals of each in-flight upload RPC
    budget,               \* upload / download calls still allowed
    returned_ids,         \* history: ids returned by blacklist_upload, in order
    rejected,             \* history: the duplicates logged by the uploads
    sealed,               \* history: chunks as pushed to done_chunks, in order
    removed,              \* history: pruned chunks with the time of pruning
    downloads,            \* history: the last two download calls
    config,               \* the social graph the configurator was run on
    updater,              \* per participant: the Updater task (pc, from)
    inbox,                \* per participant: the mpsc channel of Events
    loop,                 \* per participant: position of ClientState::run
    computations,         \* per participant: ClientState.computations
    flags,                \* per participant: traced / transitive contact
    own_ids,              \* history: ids returned to the participant's init
    processed,            \* history: covers of chunks given to process_chunk
    rounds,               \* history: the updater's first `from`; whether a
                          \*   round failed, whether one returned no chunk
    faults,               \* RPC failures and timeouts still allowed
    log,                  \* history, per participant: the alerts it raised,
                          \*   its requests for the forwarder window, the
                          \*   forward RPCs it sent, its greylist uploads
    forwarder,            \* the ForwarderServer of one participant, its
                          \*   listener tasks and the callers of request()
    key_history,          \* ClientState.keys of one participant, as the
                          \*   configurator builds it, and what was asked of it
    outsiders,            \* forward RPCs that peers outside the scenario may
                          \*   still send to the participants' endpoints
    traced_contacts,      \* BluetoothLayer.traced_contacts of one participant
    black_list,           \* a DiagnosisKeys list of exposurelib
    calls                 \* history: the contacts added to the layer, the
                          \*   batches inserted into the list and what
                          \*   get_from returned

ds_vars == <<now, current_chunk, done_chunks, computation_id_seed, mutex,
             rotator, handler, budget>>
hist_vars == <<returned_ids, rejected, sealed, removed, downloads>>
pn_vars == <<config, updater, inbox, loop, computations, flags, own_ids,
             processed, rounds, faults, log, forwarder, key_history,
             outsiders, traced_contacts, black_list, calls>>
vars == <<ds_vars, hist_vars, pn_vars>>

(***************************************************************************)
(* exposurelib/src/time.rs : TimeInterval                                  *)
(***************************************************************************)
with_duration(from, duration) == [from |-> from, to |-> from + duration]

duration(i) == i.to - i.from

before(i, time) == i.from - time > 0

after(i, time) == time - i.to >= 0

contains(i, time) == ~before(i, time) /\ ~after(i, time)

\* variant of next_interval that leaves one tick between the two intervals
next_interval_gap(i) == [from |-> i.to + 1, to |-> i.to + 1 + duration(i)]

next_interval(i) == [from |-> i.to, to |-> i.to + duration(i)]

\* the interval of the midnight-anchored grid that contains `time`
with_alignment(d, time) ==
    LET k == CHOOSE n \in 0..MaxTime : contains(with_duration(n * d, d), time)
    IN  with_duration(k * d, d)

(***************************************************************************)
(* exposurelib/src/time.rs : ExposureTime; primitives.rs : Validity;       *)
(* client_state.rs : Keys.  Wall-clock time is counted in minutes here.    *)
(***************************************************************************)
\* an exposure notification interval lasts ten minutes
EninMinutes == 10

\* ExposureTime::en_interval_number: the number of the interval of `utc`
en_interval_number(utc) == utc \div EninMinutes

\* variant of floor_tekrp_multiple that rounds up
ceil_tekrp_multiple(j, tekrp) == ((j + tekrp - 1) \div tekrp) * tekrp

\* ExposureTime::floor_tekrp_multiple, in u32; the product is at most j
floor_tekrp_multiple(j, tekrp) == (j \div tekrp) * tekrp

\* TekRollingPeriod is a u16
U16 == 65536

\* From<TekRollingPeriod> for Duration multiplies by ten in u16: past u16 the
\* product wraps around in a release build and panics in a debug build
tekrp_overflows(tekrp) == tekrp * EninMinutes >= U16

Duration_from_tekrp(tekrp) == (tekrp * EninMinutes) % U16

\* InfectionPeriod::as_duration, in minutes: the duration of the TEKRP times
\* the infection period as i32; the product of two u16 and ten fits chrono's
\* Duration
as_duration(infection_period, tekrp) ==
    Duration_from_tekrp(tekrp) * infection_period

\* Validity::new
Validity_new(exposure_time, tekrp, keyring) ==
    [valid_from |-> floor_tekrp_multiple(exposure_time, tekrp),
     keyring |-> keyring]

NoKeyring == 0

\* Validity::query: Some(keyring) or None
Validity_query(validity, exposure_time, tekrp) ==
    IF floor_tekrp_multiple(exposure_time, tekrp) = validity.valid_from
    THEN validity.keyring
    ELSE NoKeyring

\* Keys::new: one keyring per TEKRP of the infection period, newest first;
\* the k-th keyring drawn from the random source is called k
Keys_new(from, tekrp, infection_period) ==
    [k \in 1..infection_period |->
        Validity_new(
            en_interval_number(from - Duration_from_tekrp(tekrp) * (k - 1)),
            tekrp, k)]

\* the keyrings that answer Validity::query with Some
answering(all, at, tekrp) ==
    {k \in 1..Len(all) : Validity_query(all[k], at, tekrp) # NoKeyring}

\* Keys::exposure_keyring: find_map over the history, front to back
exposure_keyring(all, at, tekrp) ==
    IF answering(all, at, tekrp) = {} THEN NoKeyring
    ELSE LET first == CHOOSE k \in answering(all, at, tekrp) :
                        \A l \in answering(all, at, tekrp) : k <= l
         IN  Validity_query(all[first], at, tekrp)

NoFloor == [j |-> 0, once |-> 0, twice |-> 0, done |-> FALSE]
NoQuery == [at |-> 0, hits |-> {}, keyring |-> NoKeyring, done |-> FALSE]

\* no key history is under examination
NoKeys ==
    [from |-> 0, tekrp |-> 1, infection_period |-> 0, all |-> << >>,
     pc |-> "off", floored |-> NoFloor, queried |-> NoQuery]

(***************************************************************************)
(* exposurelib/src/diagnosis_server_state.rs : Chunk, ComputationState     *)
(***************************************************************************)
EmptyData == [c \in {} |-> 0]

ComputationState_new == [blacklist |-> {}, greylist |-> {}]

ComputationState_insert(state, list, data) ==
    IF list = "Blacklist"
    THEN [state EXCEPT !.blacklist = @ \cup data]
    ELSE [state EXCEPT !.greylist = @ \cup data]

Chunk_new(covers) == [covers |-> covers, data |-> EmptyData]

next_chunk(chunk) == [covers |-> next_interval(chunk.covers), data |-> EmptyData]

Chunk_insert(chunk, list, computation_id, data) ==
    LET old == IF computation_id \in DOMAIN chunk.data
               THEN chunk.data[computation_id]
               ELSE ComputationState_new
    IN  [chunk EXCEPT !.data =
            [c \in (DOMAIN chunk.data) \cup {computation_id} |->
                IF c = computation_id
                THEN ComputationState_insert(old, list, data)
                ELSE chunk.data[c]]]

list_of(state, list) ==
    IF list = "Blacklist" THEN state.blacklist ELSE state.greylist

(***************************************************************************)
(* diagnosisserver/src/state.rs : Chunks                                   *)
(***************************************************************************)
\* variant of expired that keeps a chunk whose end is exactly one retention
\* period old
expired_strict(chunk, time) == chunk.covers.to < time - RetentionPeriod

\* the retention test of add_done_chunk
expired(chunk, time) == chunk.covers.to <= time - RetentionPeriod

\* push_front, then pop_back when the oldest chunk left the retention period
add_done_chunk(chunks, chunk, time) ==
    LET pushed == <<chunk>> \o chunks
    IN  IF expired(pushed[Len(pushed)], time)
        THEN SubSeq(pushed, 1, Len(pushed) - 1)
        ELSE pushed

\* variant of take_while_not_contains that also yields the chunk containing
\* `from`
RECURSIVE take_through_containing(_, _)
take_through_containing(chunks, from) ==
    IF chunks = << >> THEN << >>
    ELSE IF contains(Head(chunks).covers, from) THEN <<Head(chunks)>>
    ELSE <<Head(chunks)>> \o take_through_containing(Tail(chunks), from)

\* iter().take_while(|chunk| !chunk.covers().contains(from))
RECURSIVE take_while_not_contains(_, _)
take_while_not_contains(chunks, from) ==
    IF chunks = << >> THEN << >>
    ELSE IF contains(Head(chunks).covers, from) THEN << >>
    ELSE <<Head(chunks)>> \o take_while_not_contains(Tail(chunks), from)

\* variant of get_chunks without the test against the newest chunk
get_chunks_no_newest_test(chunks, from) ==
    take_while_not_contains(chunks, from)

get_chunks(chunks, from) ==
    IF chunks = << >> THEN << >>
    ELSE IF from >= chunks[1].covers.from THEN << >>
    ELSE take_while_not_contains(chunks, from)

\* variant of deduplicate that never looks at the done chunks
deduplicate_nothing(chunks, list, computation_id, candidates) == candidates

\* the candidates not present in `list` of `computation_id` in any done chunk
RECURSIVE deduplicate(_, _, _, _)
deduplicate(chunks, list, computation_id, candidates) ==
    IF chunks = << >> THEN candidates
    ELSE LET chunk == Head(chunks)
             rest == IF computation_id \in DOMAIN chunk.data
                     THEN candidates \ list_of(chunk.data[computation_id], list)
                     ELSE candidates
         IN  deduplicate(Tail(chunks), list, computation_id, rest)

\* add_to_blacklist / add_to_greylist: what is left after deduplicate goes
\* into the current chunk
insert_deduplicated(current, done, list, computation_id, diagnosis_keys) ==
    LET deduplicated == deduplicate(done, list, computation_id, diagnosis_keys)
    IN  IF deduplicated # {}
        THEN Chunk_insert(current, list, computation_id, deduplicated)
        ELSE current

(***************************************************************************)
(* configurator/src : the social graph and what it generates               *)
(***************************************************************************)
Participants == {"p0", "p1", "p2", "p3"}
NoOne == "nobody"

\* the exposure times of the encounters
ExposureTimes == {1, 2}

\* an edge (by, of) means that `by` registered `of` at the time with the risk
add_one_way_registration(by, of, time, intensity) ==
    {[by |-> by, of |-> of, time |-> time, intensity |-> intensity]}

add_mutual_registration(between, and, time, intensity) ==
    add_one_way_registration(between, and, time, intensity)
        \cup add_one_way_registration(and, between, time, intensity)

\* p0 is positively tested; p1 met p0; p2 met p1; and then the graphs differ
\* in what p0 and p2 registered of each other
Chain ==
    add_mutual_registration("p0", "p1", 1, "HighRisk")
        \cup add_mutual_registration("p1", "p2", 1, "HighRisk")

SocialGraphs ==
    { Chain,
      Chain \cup add_mutual_registration("p0", "p2", 1, "HighRisk"),
      Chain \cup add_one_way_registration("p0", "p2", 1, "HighRisk"),
      Chain \cup add_mutual_registration("p0", "p2", 2, "LowRisk") }

NoConfig == [positively_tested |-> {}, social_graph |-> {}]

Configs ==
    {[positively_tested |-> {"p0"}, social_graph |-> g] : g \in SocialGraphs}

\* the participants the configurator writes a client configuration for: the
\* nodes of the graph
nodes(cfg) ==
    cfg.positively_tested \cup {e.by : e \in cfg.social_graph}
        \cup {e.of : e \in cfg.social_graph}

\* the scenarios: a direct contact, a low-risk contact, three hops, and
\* three hops with a fourth participant who met the second one
Direct ==
    [positively_tested |-> {"p0"},
     social_graph |-> add_mutual_registration("p0", "p1", 1, "HighRisk")]

LowRiskOnly ==
    [positively_tested |-> {"p0"},
     social_graph |-> add_mutual_registration("p0", "p1", 1, "LowRisk")]

ThreeHop == [positively_tested |-> {"p0"}, social_graph |-> Chain]

FourParty ==
    [positively_tested |-> {"p0"},
     social_graph |->
        Chain \cup add_mutual_registration("p1", "p3", 1, "HighRisk")]

Scenarios == {Direct, LowRiskOnly, ThreeHop, FourParty}

(***************************************************************************)
(* configurator/src/verification.rs : the ground truth                     *)
(***************************************************************************)
neighbors(graph, from) == {e.of : e \in {r \in graph : r.by = from}}

high_risk_registration_at(graph, from, to, at) ==
    \E e \in graph :
        e.by = from /\ e.of = to /\ e.time = at /\ e.intensity = "HighRisk"

mutual_high_risk_registration_at(graph, from, to, at) ==
    /\ high_risk_registration_at(graph, from, to, at)
    /\ high_risk_registration_at(graph, to, from, at)

\* explore_and_mark: the participants in `queue` are marked and explored,
\* and then those they reach over a mutual high-risk registration at the
\* time of the event
RECURSIVE explore_and_mark(_, _, _, _)
explore_and_mark(graph, ssev_time, queue, explored) ==
    IF queue = {} THEN explored
    ELSE LET marked == explored \cup queue
             reached == {neighbor \in UNION {neighbors(graph, from) :
                                                from \in queue} :
                            /\ neighbor \notin marked
                            /\ \E from \in queue :
                                  mutual_high_risk_registration_at(graph,
                                        from, neighbor, ssev_time)}
         IN  explore_and_mark(graph, ssev_time, reached, marked)

\* the times of the high-risk encounters an infected participant registered
ssev_times(graph, infected) ==
    {e.time : e \in {r \in graph :
                        r.by = infected /\ r.intensity = "HighRisk"}}

\* mark_ssev_group: the participants that are to be warned
mark_ssev_group(cfg) ==
    UNION {explore_and_mark(cfg.social_graph, ssev_time, {infected}, {}) :
            <<infected, ssev_time>> \in
                {<<i, t>> \in cfg.positively_tested \X ExposureTimes :
                    t \in ssev_times(cfg.social_graph, i)}}

to_be_warned(p) == p \in mark_ssev_group(config)

\* every participant's key history holds one TEK: all encounters of the
\* graphs fall into one TEK rolling period.  A TEK is named after its owner.
all_teks(p) == {p}

is_own_tek(p, tek) == tek \in all_teks(p)

\* the rolling proximity identifier derived from a TEK for an exposure time
rpi(tek, exposure_time) == <<tek, exposure_time>>

\* the traced contacts the configurator puts into the participant's bluetooth
\* layer: one per registration, carrying the other's RPI and, as encrypted
\* metadata, the intensity and the other's endpoint
bluetooth_layer(p) ==
    {[exposure_time |-> r.time,
      rpi |-> rpi(r.of, r.time),
      aem |-> [intensity |-> r.intensity, connection_identifier |-> r.of]] :
        r \in {e \in config.social_graph : e.by = p}}

(***************************************************************************)
(* exposurelib/src/client_state.rs, exposurelib/src/rpcs.rs                *)
(***************************************************************************)
NoMatch == [connection_identifier |-> NoOne, tek |-> NoOne,
            high_risk |-> {}, low_risk |-> {}]

\* variant of match_with that takes every encounter for a high-risk one
match_with_all_high_risk(layer, with) ==
    LET hits == {c \in layer : c.rpi = rpi(with, c.exposure_time)}
    IN  IF hits = {} THEN NoMatch
        ELSE [connection_identifier |->
                (CHOOSE c \in hits : TRUE).aem.connection_identifier,
              tek |-> with,
              high_risk |-> {c.exposure_time : c \in hits},
              low_risk |-> {}]

\* BluetoothLayer::match_with: the traced contacts whose observed RPI is the
\* one derived from `with` for their exposure time
match_with(layer, with) ==
    LET hits == {c \in layer : c.rpi = rpi(with, c.exposure_time)}
    IN  IF hits = {} THEN NoMatch
        ELSE [connection_identifier |->
                (CHOOSE c \in hits : TRUE).aem.connection_identifier,
              tek |-> with,
              high_risk |-> {c.exposure_time :
                    c \in {h \in hits : h.aem.intensity = "HighRisk"}},
              low_risk |-> {c.exposure_time :
                    c \in {h \in hits : h.aem.intensity # "HighRisk"}}]

\* BluetoothLayer::new: no bucket yet
BluetoothLayer_new == [valid_from \in {} |-> << >>]

\* DiagnosisKeys::new
DiagnosisKeys_new == [diagnosis_keys |-> {}, by_arrival_time |-> << >>]

NoCalls == [added |-> << >>, matched |-> << >>, inserted |-> << >>,
            fetched |-> << >>]

\* variant of ForwardParams::new that leaves the predecessor blank
ForwardParams_new_blank_predecessor(computation_id, own_tek, shared_encounter_times) ==
    [computation_id |-> computation_id, predecessor |-> NoOne,
     origin |-> own_tek, shared_encounter_times |-> shared_encounter_times]

\* ForwardParams::new: the sender's own TEK is both origin and predecessor
ForwardParams_new(computation_id, own_tek, shared_encounter_times) ==
    [computation_id |-> computation_id, predecessor |-> own_tek,
     origin |-> own_tek, shared_encounter_times |-> shared_encounter_times]

\* variant of ForwardParams::update that makes the relaying node the origin
ForwardParams_update_origin(params, next_predecessor_tek, next_times) ==
    [params EXCEPT !.predecessor = next_predecessor_tek,
                   !.origin = next_predecessor_tek,
                   !.shared_encounter_times = next_times]

\* ForwardParams::update: the next hop's predecessor and shared times
ForwardParams_update(params, next_predecessor_tek, next_times) ==
    [params EXCEPT !.predecessor = next_predecessor_tek,
                   !.shared_encounter_times = next_times]

\* variant of is_first_forward that takes every forward for a first one
is_first_forward_always(params) == params.origin = params.origin

is_first_forward(params) == params.origin = params.predecessor

(***************************************************************************)
(* client/src/state.rs : Computation                                       *)
(***************************************************************************)
Computation_default == [successors |-> {}, redlist |-> {}]

\* variant of is_own that takes every computation for an own one
is_own_whatever(computation) == computation.successors = computation.successors

is_own(computation) == computation.successors = {}

\* variant of the insertion into the redlist that forgets the TEKs in it
redlist_replace(redlist, predecessor_tek) == {predecessor_tek}

\* on_tek_forward: computation.redlist_mut().insert(predecessor_tek)
redlist_insert(redlist, predecessor_tek) == redlist \cup {predecessor_tek}

\* HashSet<Match>::insert; two matches are equal when their TEKs are
successors_insert(successors, matched) ==
    IF \E s \in successors : s.tek = matched.tek THEN successors
    ELSE successors \cup {matched}

NoComputations == [c \in {} |-> Computation_default]

(***************************************************************************)
(* diagnosisserver/src/state.rs : DiagnosisServerState                     *)
(***************************************************************************)
IdleHandler == [pc |-> "idle", list |-> "none", computation_id |-> 0,
                diagnosis_keys |-> {}]

\* DiagnosisServerState::new at time `start`, with the given call budgets
InitServer(start, uploads, dls) ==
    /\ now = start
    /\ current_chunk = Chunk_new(with_alignment(ChunkPeriod, start))
    /\ done_chunks = << >>
    /\ computation_id_seed = 0
    /\ mutex = [current_chunk |-> NoTask, done_chunks |-> NoTask]
    /\ rotator = [pc |-> "calc", deadline |-> 0]
    /\ handler = [h \in Handlers |-> IdleHandler]
    /\ budget = [uploads |-> uploads, downloads |-> dls]
    /\ returned_ids = << >>
    /\ rejected = {}
    /\ sealed = << >>
    /\ removed = << >>
    /\ downloads = << >>

\* variant of available: a lock that excludes nobody
available_always(m) == TRUE

\* tokio Mutex::lock().await completes only while nobody holds the mutex
available(m) == mutex[m] = NoTask

\* wall-clock time passes; the rotator's sleep ends at its deadline and the
\* task is rescheduled within MaxLag ticks
Tick ==
    /\ now < MaxTime
    /\ now < current_chunk.covers.to + MaxLag
    /\ now' = now + 1
    /\ UNCHANGED pn_vars
    /\ UNCHANGED <<current_chunk, done_chunks, computation_id_seed, mutex,
                   rotator, handler, budget, hist_vars>>

\* update(): lock current_chunk, read the deadline, unlock, go to sleep
RotatorSleep ==
    /\ rotator.pc = "calc"
    /\ available("current_chunk")
    /\ rotator' = [pc |-> "sleep", deadline |-> current_chunk.covers.to]
    /\ UNCHANGED pn_vars
    /\ UNCHANGED <<now, current_chunk, done_chunks, computation_id_seed, mutex,
                   handler, budget, hist_vars>>

\* variant of sleep_over: the rotator does not wait for the deadline
sleep_over_at_once(deadline, time) == TRUE

\* time::sleep(deadline - now) is over once the deadline is reached
sleep_over(deadline, time) == time >= deadline

\* update(): the sleep is over, lock current_chunk
RotatorLockCurrent ==
    /\ rotator.pc = "sleep"
    /\ sleep_over(rotator.deadline, now)
    /\ available("current_chunk")
    /\ mutex' = [mutex EXCEPT !.current_chunk = "rotator"]
    /\ rotator' = [rotator EXCEPT !.pc = "lock_done"]
    /\ UNCHANGED pn_vars
    /\ UNCHANGED <<now, current_chunk, done_chunks, computation_id_seed,
                   handler, budget, hist_vars>>

\* update(): lock done_chunks and std::mem::replace the current chunk by
\* next_chunk(); the old chunk is a local of the task
RotatorReplace ==
    /\ rotator.pc = "lock_done"
    /\ available("done_chunks")
    /\ mutex' = [mutex EXCEPT !.done_chunks = "rotator"]
    /\ current_chunk' = next_chunk(current_chunk)
    /\ rotator' = [pc |-> "push", deadline |-> rotator.deadline,
                   chunk |-> current_chunk]
    /\ UNCHANGED pn_vars
    /\ UNCHANGED <<now, done_chunks, computation_id_seed, handler, budget,
                   hist_vars>>

\* update(): add_done_chunk(old chunk); both guards are dropped at the end of
\* the loop body
RotatorPush ==
    /\ rotator.pc = "push"
    /\ LET pushed == <<rotator.chunk>> \o done_chunks
           kept == add_done_chunk(done_chunks, rotator.chunk, now)
           gone == {i \in 1..Len(pushed) :
                        \A k \in 1..Len(kept) : kept[k] # pushed[i]}
       IN  /\ done_chunks' = kept
           /\ removed' = removed \o
                [i \in 1..Cardinality(gone) |->
                    [chunk |-> pushed[Len(pushed) + 1 - i], at |-> now]]
    /\ sealed' = Append(sealed, rotator.chunk)
    /\ mutex' = [current_chunk |-> NoTask, done_chunks |-> NoTask]
    /\ rotator' = [pc |-> "calc", deadline |-> rotator.deadline]
    /\ UNCHANGED pn_vars
    /\ UNCHANGED <<now, current_chunk, computation_id_seed, handler, budget,
                   returned_ids, rejected, downloads>>

\* add_to_blacklist: a blacklist_upload RPC arrives and locks current_chunk
BlacklistLock(h, keys) ==
    /\ handler[h].pc = "idle"
    /\ budget.uploads > 0
    /\ available("current_chunk")
    /\ mutex' = [mutex EXCEPT !.current_chunk = h]
    /\ handler' = [handler EXCEPT ![h] =
            [pc |-> "seed", list |-> "Blacklist", computation_id |-> 0,
             diagnosis_keys |-> keys]]
    /\ budget' = [budget EXCEPT !.uploads = @ - 1]
    /\ UNCHANGED pn_vars
    /\ UNCHANGED <<now, current_chunk, done_chunks, computation_id_seed,
                   rotator, hist_vars>>

\* variant of next_computation_id that forgets the increment
next_computation_id_same(seed) == [id |-> seed, seed |-> seed]

\* next_computation_id: the value of the seed before the increment.  The seed
\* is a u32; the budget of uploads keeps it far from 2^32, so no wrap-around
\* is modelled.
next_computation_id(seed) == [id |-> seed, seed |-> seed + 1]

\* add_to_blacklist: next_computation_id() under the seed lock, which no task
\* holds across an await
BlacklistNextId(h) ==
    /\ handler[h].pc = "seed"
    /\ LET next == next_computation_id(computation_id_seed)
       IN  /\ computation_id_seed' = next.seed
           /\ handler' = [handler EXCEPT ![h].pc = "done_chunks",
                                         ![h].computation_id = next.id]
    /\ UNCHANGED pn_vars
    /\ UNCHANGED <<now, current_chunk, done_chunks, mutex, rotator, budget,
                   hist_vars>>

\* add_to_greylist: a greylist_upload RPC arrives and locks current_chunk
GreylistLock(h, id, keys) ==
    /\ handler[h].pc = "idle"
    /\ budget.uploads > 0
    /\ available("current_chunk")
    /\ mutex' = [mutex EXCEPT !.current_chunk = h]
    /\ handler' = [handler EXCEPT ![h] =
            [pc |-> "done_chunks", list |-> "Greylist", computation_id |-> id,
             diagnosis_keys |-> keys]]
    /\ budget' = [budget EXCEPT !.uploads = @ - 1]
    /\ UNCHANGED pn_vars
    /\ UNCHANGED <<now, current_chunk, done_chunks, computation_id_seed,
                   rotator, hist_vars>>

\* add_to_blacklist / add_to_greylist: lock done_chunks, deduplicate against
\* the done chunks, insert what is left into the current chunk, unlock, reply
UploadInsert(h) ==
    /\ handler[h].pc = "done_chunks"
    /\ available("done_chunks")
    /\ LET req == handler[h]
           deduplicated == deduplicate(done_chunks, req.list,
                                       req.computation_id, req.diagnosis_keys)
           duplicates == req.diagnosis_keys \ deduplicated
       IN  /\ current_chunk' =
                insert_deduplicated(current_chunk, done_chunks, req.list,
                                    req.computation_id, req.diagnosis_keys)
           /\ rejected' = rejected \cup
                {[list |-> req.list, computation_id |-> req.computation_id,
                  tek |-> k] : k \in duplicates}
           /\ returned_ids' =
                IF req.list = "Blacklist"
                THEN Append(returned_ids, req.computation_id)
                ELSE returned_ids
    /\ mutex' = [mutex EXCEPT !.current_chunk = NoTask]
    /\ handler' = [handler EXCEPT ![h] = IdleHandler]
    /\ UNCHANGED pn_vars
    /\ UNCHANGED <<now, done_chunks, computation_id_seed, rotator, budget,
                   sealed, removed, downloads>>

\* request_chunks: lock done_chunks, get_chunks(from), unlock, reply
Download(from) ==
    /\ budget.downloads > 0
    /\ available("done_chunks")
    /\ LET call == [from |-> from, at |-> now, held |-> done_chunks,
                    chunks |-> get_chunks(done_chunks, from)]
       IN  downloads' = IF downloads = << >> THEN <<call>>
                        ELSE <<downloads[Len(downloads)], call>>
    /\ budget' = [budget EXCEPT !.downloads = @ - 1]
    /\ UNCHANGED pn_vars
    /\ UNCHANGED <<now, current_chunk, done_chunks, computation_id_seed,
                   mutex, rotator, handler, returned_ids, rejected, sealed,
                   removed>>

Rotator ==
    RotatorSleep \/ RotatorLockCurrent \/ RotatorReplace \/ RotatorPush

Uploads ==
    \E h \in Handlers :
        \/ \E keys \in SUBSET TEKs : BlacklistLock(h, keys)
        \/ BlacklistNextId(h)
        \/ \E id \in ComputationIds, keys \in SUBSET TEKs :
                GreylistLock(h, id, keys)
        \/ UploadInsert(h)

(***************************************************************************)
(* client/src/main.rs, client/src/updater.rs : start-up and the Updater    *)
(***************************************************************************)
\* chunks the rotator seals in the specification of the participants
MaxSeals == 3
\* RPC failures and timeouts per behaviour
MaxFaults == 1

NoParams == ForwardParams_new(0, NoOne, {})
NoCall == [status |-> "none", to |-> NoOne, params |-> NoParams,
           matched |-> NoMatch]
NoEvent == [type |-> "none", last_from |-> 0, chunks |-> << >>,
            params |-> NoParams, caller |-> NoOne]

\* the state of ClientState::run: the handler it is in, the handler's locals,
\* and the forward RPC it is about to send ("send"), awaits ("await") or has
\* the reply of ("replied")
Loop(pc) ==
    [pc |-> pc, chunks |-> << >>, next_from |-> 0, data |-> EmptyData,
     cid |-> {}, blacklist |-> {}, greylist |-> {}, params |-> NoParams,
     caller |-> NoOne, shared_encounter_times |-> {}, successors |-> {},
     call |-> NoCall]

\* main: initial_from = Utc::now() - infection_period.as_duration(tekrp)
initial_from(time) == time - RetentionPeriod

StartedUpdater(time) == [pc |-> "tick", from |-> initial_from(time)]
StoppedUpdater == [pc |-> "off", from |-> 0]

\* nothing logged, nothing requested, nothing sent
NoLog ==
    [traced_contact |-> 0, low_risk_contact |-> 0, transitive_contact |-> 0,
     requests |-> 0, forwards |-> << >>, uploads |-> {}, declined |-> {},
     verdict |-> "none"]

\* calls of ForwarderServer::request per behaviour
MaxRequests == 3
\* the tasks that call request(), possibly at the same time
Callers == {"c1", "c2"}

\* ForwarderServer::new: not listening; `allowed` calls of request() are
\* still to come.  `listening` is 0 for None and g for Some(tx) with tx the
\* sender of the channel that the g-th call of start() created; tasks[g] is
\* the task that call spawned, with the tokens waiting in its channel; `bound`
\* is the task that holds the socket of the endpoint, 0 for none.
ForwarderServer_new(allowed) ==
    [listening |-> 0,
     tasks |-> << >>,
     bound |-> 0,
     callers |-> [c \in Callers |-> "idle"],
     allowed |-> allowed,
     sent |-> 0,
     too_late |-> 0]

\* the participants in `started` have just spawned their tasks
InitClients(cfg, started, allowed_faults) ==
    /\ config = cfg
    /\ updater = [p \in Participants |->
            IF p \in started THEN StartedUpdater(now) ELSE StoppedUpdater]
    /\ inbox = [p \in Participants |-> << >>]
    /\ loop = [p \in Participants |->
            IF p \in started THEN Loop("init") ELSE Loop("off")]
    /\ computations = [p \in Participants |-> NoComputations]
    /\ flags = [p \in Participants |->
            [traced_contact |-> FALSE, transitive_contact |-> FALSE]]
    /\ own_ids = [p \in Participants |-> {}]
    /\ processed = [p \in Participants |-> {}]
    /\ rounds = [p \in Participants |->
            [failed |-> FALSE, empty |-> FALSE,
             first_from |-> IF p \in started THEN initial_from(now) ELSE 0]]
    /\ faults = allowed_faults
    /\ log = [p \in Participants |-> NoLog]
    /\ traced_contacts = BluetoothLayer_new
    /\ black_list = DiagnosisKeys_new
    /\ calls = NoCalls

\* nobody calls ForwarderServer::request
InitParticipants(cfg, started, allowed_faults) ==
    /\ InitClients(cfg, started, allowed_faults)
    /\ forwarder = ForwarderServer_new(0)
    /\ key_history = NoKeys
    /\ outsiders = 0

\* main: a participant's process starts
Start(p) ==
    /\ loop[p].pc = "off"
    /\ updater' = [updater EXCEPT ![p] = StartedUpdater(now)]
    /\ loop' = [loop EXCEPT ![p] = Loop("init")]
    /\ rounds' = [rounds EXCEPT ![p].first_from = initial_from(now)]
    /\ UNCHANGED <<ds_vars, hist_vars, config, inbox, computations, flags,
                   own_ids, processed, faults, log>>
    /\ UNCHANGED <<forwarder, key_history, outsiders, traced_contacts,
                   black_list, calls>>

\* Updater::run: download(from) returned chunks; they go to the event loop
\* as NewChunks and the updater awaits the next `from`
UpdaterDownload(p) ==
    /\ updater[p].pc = "tick"
    /\ available("done_chunks")
    /\ LET updates == get_chunks(done_chunks, updater[p].from)
       IN  /\ updates # << >>
           /\ inbox' = [inbox EXCEPT ![p] = Append(@,
                    [NoEvent EXCEPT !.type = "NewChunks",
                                    !.last_from = updater[p].from,
                                    !.chunks = updates])]
    /\ updater' = [updater EXCEPT ![p].pc = "wait"]
    /\ UNCHANGED <<ds_vars, hist_vars, config, loop, computations, flags,
                   own_ids, processed, rounds, faults, log>>
    /\ UNCHANGED <<forwarder, key_history, outsiders, traced_contacts,
                   black_list, calls>>

\* Updater::run: download(from) returned no chunk; `continue`
UpdaterNoChunks(p) ==
    /\ updater[p].pc = "tick"
    /\ available("done_chunks")
    /\ get_chunks(done_chunks, updater[p].from) = << >>
    /\ ~rounds[p].empty
    /\ rounds' = [rounds EXCEPT ![p].empty = TRUE]
    /\ UNCHANGED <<ds_vars, hist_vars, config, updater, inbox, loop,
                   computations, flags, own_ids, processed, faults, log>>
    /\ UNCHANGED <<forwarder, key_history, outsiders, traced_contacts,
                   black_list, calls>>

\* Updater::run: download(from) returned Err; `continue`
UpdaterDownloadFailed(p) ==
    /\ updater[p].pc = "tick"
    /\ ~rounds[p].failed
    /\ rounds' = [rounds EXCEPT ![p].failed = TRUE]
    /\ UNCHANGED <<ds_vars, hist_vars, config, updater, inbox, loop,
                   computations, flags, own_ids, processed, faults, log>>
    /\ UNCHANGED <<forwarder, key_history, outsiders, traced_contacts,
                   black_list, calls>>

(***************************************************************************)
(* client/src/state.rs : ClientState                                       *)
(***************************************************************************)
\* HashMap::insert
put(map, key, value) ==
    [k \in DOMAIN map \cup {key} |-> IF k = key THEN value ELSE map[k]]

without(map, key) == [k \in DOMAIN map \ {key} |-> map[k]]

\* the duplicates an upload logs and does not insert
duplicates(done, list, computation_id, diagnosis_keys) ==
    {[list |-> list, computation_id |-> computation_id, tek |-> k] :
        k \in diagnosis_keys
            \ deduplicate(done, list, computation_id, diagnosis_keys)}

\* ClientState::init: a positively tested participant uploads all its TEKs
\* to the blacklist and keeps a computation under the id it gets back
init(p) ==
    /\ loop[p].pc = "init"
    /\ IF p \in config.positively_tested
       THEN LET next == next_computation_id(computation_id_seed)
            IN  /\ computation_id_seed' = next.seed
                /\ current_chunk' = insert_deduplicated(current_chunk,
                        done_chunks, "Blacklist", next.id, all_teks(p))
                /\ rejected' = rejected \cup duplicates(done_chunks,
                        "Blacklist", next.id, all_teks(p))
                /\ returned_ids' = Append(returned_ids, next.id)
                /\ computations' = [computations EXCEPT ![p] =
                        put(@, next.id, Computation_default)]
                /\ own_ids' = [own_ids EXCEPT ![p] = @ \cup {next.id}]
                /\ log' = [log EXCEPT ![p].requests = @ + 1]
       ELSE UNCHANGED <<computation_id_seed, current_chunk, rejected,
                        returned_ids, computations, own_ids, log>>
    /\ loop' = [loop EXCEPT ![p].pc = "idle"]
    /\ UNCHANGED <<now, done_chunks, mutex, rotator, handler, budget, sealed,
                   removed, downloads, config, updater, inbox, flags,
                   processed, rounds, faults>>
    /\ UNCHANGED <<forwarder, key_history, outsiders, traced_contacts,
                   black_list, calls>>

\* ClientState::run: init() returned Err, unwrap() panics, main returns and
\* the process is gone
InitPanic(p) ==
    /\ loop[p].pc = "init"
    /\ p \in config.positively_tested
    /\ faults > 0
    /\ faults' = faults - 1
    /\ loop' = [loop EXCEPT ![p].pc = "panicked"]
    /\ updater' = [updater EXCEPT ![p].pc = "off"]
    /\ log' = [log EXCEPT ![p].requests = @ + 1]
    /\ UNCHANGED <<ds_vars, hist_vars, config, inbox, computations, flags,
                   own_ids, processed, rounds>>
    /\ UNCHANGED <<forwarder, key_history, outsiders, traced_contacts,
                   black_list, calls>>

\* variant of next_from that moves on to the end of the chunk
RECURSIVE next_from_covers_to(_, _)
next_from_covers_to(last_from, chunks) ==
    IF chunks = << >> THEN last_from
    ELSE next_from_covers_to(
            IF Head(chunks).covers.to > last_from
            THEN Head(chunks).covers.to ELSE last_from,
            Tail(chunks))

\* Event::NewChunks: the `from` sent back to the updater
RECURSIVE next_from(_, _)
next_from(last_from, chunks) ==
    IF chunks = << >> THEN last_from
    ELSE next_from(
            IF Head(chunks).covers.to > last_from
            THEN Head(chunks).covers.from ELSE last_from,
            Tail(chunks))

\* what only the participant's event loop changes
Local(p) ==
    [loop |-> loop[p], computations |-> computations[p], flags |-> flags[p],
     processed |-> processed[p], log |-> log[p]]

\* the handler of NewChunks is between two calls of on_tek_match
between_matches(l) == l.pc = "chunks" /\ l.call = NoCall

\* the handler of NewChunks has nothing left to process
all_processed(l) ==
    between_matches(l) /\ l.cid = {} /\ l.data = EmptyData /\ l.chunks = << >>

\* Event::NewChunks: the next chunk of the batch is given to process_chunk
process_chunk(st) ==
    [st EXCEPT !.loop.data = Head(st.loop.chunks).data,
               !.loop.chunks = Tail(st.loop.chunks),
               !.processed = @ \cup {Head(st.loop.chunks).covers}]

\* process_chunk that warns a traced contact of its transitive contact too
process_computation_warns_traced(p, st, computation_id) ==
    LET state == st.loop.data[computation_id]
        found == /\ computation_id \in DOMAIN st.computations
                 /\ \E tek \in state.greylist : is_own_tek(p, tek)
    IN  [st EXCEPT
            !.flags.transitive_contact = IF found THEN TRUE ELSE @,
            !.log.transitive_contact = IF found THEN @ + 1 ELSE @,
            !.loop.cid = {computation_id},
            !.loop.blacklist = state.blacklist,
            !.loop.greylist = state.greylist,
            !.loop.data = without(@, computation_id)]

\* process_chunk: the next computation of the chunk; a participant of the
\* computation that finds an own TEK on its greylist is a transitive contact
process_computation(p, st, computation_id) ==
    LET state == st.loop.data[computation_id]
        found == /\ computation_id \in DOMAIN st.computations
                 /\ \E tek \in state.greylist : is_own_tek(p, tek)
    IN  [st EXCEPT
            !.flags.transitive_contact = IF found THEN TRUE ELSE @,
            !.log.transitive_contact =
                IF found /\ ~st.flags.traced_contact THEN @ + 1 ELSE @,
            !.loop.cid = {computation_id},
            !.loop.blacklist = state.blacklist,
            !.loop.greylist = state.greylist,
            !.loop.data = without(@, computation_id)]

\* variant of on_tek_match without the test of the redlist
on_tek_match_without_redlist(p, st, tek, from, computation_id) ==
    LET matched == match_with(bluetooth_layer(p), tek)
        blacklist == st.loop.blacklist \ {tek}
        greylist == IF from = "Greylist" THEN st.loop.greylist \ {tek}
                    ELSE st.loop.greylist
        skipped ==
            \/ matched = NoMatch
            \/ matched.high_risk = {}
        traced == matched # NoMatch /\ from = "Blacklist"
    IN  [st EXCEPT
            !.flags.traced_contact =
                IF traced /\ matched.high_risk # {} THEN TRUE ELSE @,
            !.log.traced_contact =
                IF traced /\ matched.high_risk # {} THEN @ + 1 ELSE @,
            !.log.low_risk_contact =
                IF traced /\ matched.high_risk = {} THEN @ + 1 ELSE @,
            !.log.requests = IF skipped THEN @ ELSE @ + 1,
            !.loop.blacklist = blacklist,
            !.loop.greylist = greylist,
            !.loop.cid = IF blacklist = {} /\ greylist = {} THEN {} ELSE @,
            !.loop.call =
                IF skipped THEN NoCall
                ELSE [status |-> "send",
                      to |-> matched.connection_identifier,
                      params |-> ForwardParams_new(computation_id,
                                    CHOOSE own \in all_teks(p) : TRUE,
                                    matched.high_risk),
                      matched |-> matched]]

\* on_tek_match for a TEK of list `from`, up to the forward RPC, which is
\* left in `call` to be sent
on_tek_match(p, st, tek, from, computation_id) ==
    LET matched == match_with(bluetooth_layer(p), tek)
        blacklist == st.loop.blacklist \ {tek}
        greylist == IF from = "Greylist" THEN st.loop.greylist \ {tek}
                    ELSE st.loop.greylist
        skipped ==
            \/ matched = NoMatch
            \/ matched.high_risk = {}
            \/ /\ computation_id \in DOMAIN st.computations
               /\ from = "Greylist"
               /\ matched.tek \in st.computations[computation_id].redlist
        traced == matched # NoMatch /\ from = "Blacklist"
    IN  [st EXCEPT
            !.flags.traced_contact =
                IF traced /\ matched.high_risk # {} THEN TRUE ELSE @,
            !.log.traced_contact =
                IF traced /\ matched.high_risk # {} THEN @ + 1 ELSE @,
            !.log.low_risk_contact =
                IF traced /\ matched.high_risk = {} THEN @ + 1 ELSE @,
            !.log.requests = IF skipped THEN @ ELSE @ + 1,
            !.loop.blacklist = blacklist,
            !.loop.greylist = greylist,
            !.loop.cid = IF blacklist = {} /\ greylist = {} THEN {} ELSE @,
            !.loop.call =
                IF skipped THEN NoCall
                ELSE [status |-> "send",
                      to |-> matched.connection_identifier,
                      params |-> ForwardParams_new(computation_id,
                                    CHOOSE own \in all_teks(p) : TRUE,
                                    matched.high_risk),
                      matched |-> matched]]

\* the next step of the handler of NewChunks: the TEKs of the blacklist and
\* then of the greylist of the computation at hand (HashSets, any order),
\* else the next computation of the chunk (a HashMap, any order), else the
\* next chunk
handler_step(p, st) ==
    IF st.loop.cid # {}
    THEN LET computation_id == CHOOSE c \in st.loop.cid : TRUE
         IN  IF st.loop.blacklist # {}
             THEN {on_tek_match(p, st, tek, "Blacklist", computation_id) :
                        tek \in st.loop.blacklist}
             ELSE {on_tek_match(p, st, tek, "Greylist", computation_id) :
                        tek \in st.loop.greylist}
    ELSE IF st.loop.data # EmptyData
    THEN {process_computation(p, st, c) : c \in DOMAIN st.loop.data}
    ELSE {process_chunk(st)}

\* the handler of NewChunks runs, changing only the participant's own
\* state, until it has a forward RPC to send or is through
RECURSIVE until_await(_, _)
until_await(p, st) ==
    IF st.loop.call # NoCall \/ all_processed(st.loop) THEN {st}
    ELSE UNION {until_await(p, next) : next \in handler_step(p, st)}

\* the handler of NewChunks has come to `st`; if it is through,
\* resp.send(next_from), which the updater takes as its `from`
Continue(p, st) ==
    /\ computations' = [computations EXCEPT ![p] = st.computations]
    /\ flags' = [flags EXCEPT ![p] = st.flags]
    /\ processed' = [processed EXCEPT ![p] = st.processed]
    /\ log' = [log EXCEPT ![p] = st.log]
    /\ IF all_processed(st.loop)
       THEN /\ loop' = [loop EXCEPT ![p] = Loop("idle")]
            /\ updater' = [updater EXCEPT ![p] =
                    [pc |-> "tick", from |-> st.loop.next_from]]
       ELSE /\ loop' = [loop EXCEPT ![p] = st.loop]
            /\ UNCHANGED updater

\* Event::NewChunks is received: next_from is computed and the chunks are
\* processed one after the other
NewChunks(p) ==
    /\ loop[p].pc = "idle"
    /\ inbox[p] # << >>
    /\ Head(inbox[p]).type = "NewChunks"
    /\ LET event == Head(inbox[p])
           received == [Loop("chunks") EXCEPT
                    !.chunks = event.chunks,
                    !.next_from = next_from(event.last_from, event.chunks)]
       IN  \E st \in until_await(p, [Local(p) EXCEPT !.loop = received]) :
                Continue(p, st)
    /\ inbox' = [inbox EXCEPT ![p] = Tail(@)]
    /\ UNCHANGED <<ds_vars, hist_vars, config, own_ids, rounds, faults>>
    /\ UNCHANGED <<forwarder, key_history, outsiders, traced_contacts,
                   black_list, calls>>

\* the listener of the callee takes the forward RPC
listening(q) == loop[q].pc \notin {"off", "panicked"}

\* the reply to a forward RPC reaches the caller if it still awaits it: a
\* caller that gave the call up dropped the receiving end, so the reply to a
\* request it sent before the one it waits for now is lost; the requests
\* that are behind the one the callee is handling were sent later
replied(loops, callee, caller, params) ==
    LET behind == IF loops[callee].pc = "idle" THEN Tail(inbox[callee])
                  ELSE inbox[callee]
    IN  IF /\ caller \in Participants
           /\ loops[caller].call.status = "await"
           /\ loops[caller].call.to = callee
           /\ loops[caller].call.params = params
           /\ \A i \in 1..Len(behind) :
                    ~(behind[i].type = "NewForwardRequest"
                        /\ behind[i].caller = caller)
        THEN [loops EXCEPT ![caller].call.status = "replied"]
        ELSE loops

\* on_tek_forward goes on to a next successor (a HashSet, any order),
\* skipping those without a shared encounter time: the loops it may come to
\* with a forward RPC to send, or, if no successor is left, no loop
relay(p, l) ==
    {[l EXCEPT
        !.successors = {s \in l.successors :
                            /\ s # successor
                            /\ l.shared_encounter_times \cap s.high_risk # {}},
        !.call = [status |-> "send",
                  to |-> successor.connection_identifier,
                  params |-> ForwardParams_update(l.params,
                        CHOOSE own \in all_teks(p) : TRUE,
                        l.shared_encounter_times \cap successor.high_risk),
                  matched |-> successor]] :
        successor \in {s \in l.successors :
                            l.shared_encounter_times \cap s.high_risk # {}}}

\* on_tek_forward returns and Event::NewForwardRequest replies to the caller
Return(p, caller, params) ==
    loop' = [replied(loop, p, caller, params) EXCEPT ![p] = Loop("idle")]

\* on_tek_forward: forward to the next successor, or return
Relay(p, l) ==
    IF relay(p, l) = {} THEN Return(p, l.caller, l.params)
    ELSE \E next \in relay(p, l) : loop' = [loop EXCEPT ![p] = next]

\* the forward RPC is sent: the request is in the callee's inbox and the
\* caller awaits the reply
SendForward(p) ==
    /\ loop[p].call.status = "send"
    /\ listening(loop[p].call.to)
    /\ inbox' = [inbox EXCEPT ![loop[p].call.to] = Append(@,
            [NoEvent EXCEPT !.type = "NewForwardRequest",
                            !.params = loop[p].call.params, !.caller = p])]
    /\ loop' = [loop EXCEPT ![p].call.status = "await"]
    /\ log' = [log EXCEPT ![p].forwards = Append(@,
            [to |-> loop[p].call.to, params |-> loop[p].call.params])]
    /\ UNCHANGED <<ds_vars, hist_vars, config, updater, computations, flags,
                   own_ids, processed, rounds, faults>>
    /\ UNCHANGED <<forwarder, key_history, outsiders, traced_contacts,
                   black_list, calls>>

\* variant of the failing forward() in which on_tek_match records the match
\* as a successor all the same
ForwardFailed_recording(p) ==
    /\ \/ /\ loop[p].call.status = "send"
          /\ ~listening(loop[p].call.to)
          /\ UNCHANGED faults
       \/ /\ loop[p].call.status \in {"send", "await"}
          /\ faults > 0
          /\ faults' = faults - 1
    /\ IF loop[p].pc = "chunks"
       THEN LET computation_id == loop[p].call.params.computation_id
                computation == IF computation_id \in DOMAIN computations[p]
                               THEN computations[p][computation_id]
                               ELSE Computation_default
                inserted == put(computations[p], computation_id,
                     [computation EXCEPT !.successors =
                         successors_insert(@, loop[p].call.matched)])
            IN  \E st \in until_await(p, [Local(p) EXCEPT
                                             !.loop.call = NoCall,
                                             !.computations = inserted]) :
                     Continue(p, st)
       ELSE /\ Return(p, loop[p].caller, loop[p].params)
            /\ UNCHANGED <<updater, computations, flags, processed, log>>
    /\ UNCHANGED <<ds_vars, hist_vars, config, inbox, own_ids, rounds>>
    /\ UNCHANGED <<forwarder, key_history, outsiders, traced_contacts,
                   black_list, calls>>

\* forward() returns an error: nobody listens at the endpoint, connecting
\* fails, or the deadline passes before the reply.  on_tek_match returns the
\* error, which is logged, and the handler of NewChunks goes on;
\* on_tek_forward returns the error
ForwardFailed(p) ==
    /\ \/ /\ loop[p].call.status = "send"
          /\ ~listening(loop[p].call.to)
          /\ UNCHANGED faults
       \/ /\ loop[p].call.status \in {"send", "await"}
          /\ faults > 0
          /\ faults' = faults - 1
    /\ IF loop[p].pc = "chunks"
       THEN \E st \in until_await(p, [Local(p) EXCEPT !.loop.call = NoCall]) :
                Continue(p, st)
       ELSE /\ Return(p, loop[p].caller, loop[p].params)
            /\ UNCHANGED <<updater, computations, flags, processed, log>>
    /\ UNCHANGED <<ds_vars, hist_vars, config, inbox, own_ids, rounds>>
    /\ UNCHANGED <<forwarder, key_history, outsiders, traced_contacts,
                   black_list, calls>>

\* on_tek_match: forward() returned; the matched participant becomes a
\* successor in the computation, which is created if need be
MatchForwarded(p) ==
    /\ loop[p].pc = "chunks"
    /\ loop[p].call.status = "replied"
    /\ LET computation_id == loop[p].call.params.computation_id
           computation == IF computation_id \in DOMAIN computations[p]
                          THEN computations[p][computation_id]
                          ELSE Computation_default
           inserted == put(computations[p], computation_id,
                [computation EXCEPT !.successors =
                    successors_insert(@, loop[p].call.matched)])
       IN  \E st \in until_await(p, [Local(p) EXCEPT
                                        !.loop.call = NoCall,
                                        !.computations = inserted]) :
                Continue(p, st)
    /\ UNCHANGED <<ds_vars, hist_vars, config, inbox, own_ids, rounds,
                   faults>>
    /\ UNCHANGED <<forwarder, key_history, outsiders, traced_contacts,
                   black_list, calls>>

\* Event::NewForwardRequest: on_tek_forward up to its first forward RPC.
\* The forward is dropped, or the pooling node announces the origin's TEK
\* to the greylist, or the participant relays to its successors.
on_tek_forward(p) ==
    /\ loop[p].pc = "idle"
    /\ inbox[p] # << >>
    /\ Head(inbox[p]).type = "NewForwardRequest"
    /\ inbox' = [inbox EXCEPT ![p] = Tail(@)]
    /\ LET params == Head(inbox[p]).params
           caller == Head(inbox[p]).caller
           computation_id == params.computation_id
           matched == match_with(bluetooth_layer(p), params.predecessor)
           known == matched # NoMatch
                        /\ computation_id \in DOMAIN computations[p]
           computation == IF known THEN computations[p][computation_id]
                          ELSE Computation_default
           redlist == IF is_first_forward(params)
                      THEN redlist_insert(computation.redlist,
                                          params.predecessor)
                      ELSE computation.redlist
           shared_encounter_times ==
                matched.high_risk \cap params.shared_encounter_times
           dropped == \/ ~known
                      \/ params.predecessor \notin redlist
                      \/ shared_encounter_times = {}
       IN  /\ computations' =
                IF known
                THEN [computations EXCEPT
                        ![p][computation_id].redlist = redlist]
                ELSE computations
           /\ IF dropped
              THEN /\ Return(p, caller, params)
                   /\ log' = [log EXCEPT ![p].declined = @ \cup
                        {[computation_id |-> computation_id,
                          origin |-> params.origin]}]
                   /\ UNCHANGED <<current_chunk, rejected, faults>>
              ELSE IF is_own(computation)
              THEN /\ Return(p, caller, params)
                   /\ log' = [log EXCEPT ![p].uploads = @ \cup
                        {[computation_id |-> computation_id,
                          tek |-> params.origin]}]
                   /\ \/ /\ current_chunk' = insert_deduplicated(
                                current_chunk, done_chunks, "Greylist",
                                computation_id, {params.origin})
                         /\ rejected' = rejected \cup duplicates(done_chunks,
                                "Greylist", computation_id, {params.origin})
                         /\ UNCHANGED faults
                      \/ /\ faults > 0
                         /\ faults' = faults - 1
                         /\ UNCHANGED <<current_chunk, rejected>>
              ELSE /\ Relay(p, [Loop("forward") EXCEPT
                        !.params = params,
                        !.caller = caller,
                        !.shared_encounter_times = shared_encounter_times,
                        !.successors = computation.successors])
                   /\ log' = [log EXCEPT ![p].declined =
                        IF \E s \in computation.successors :
                              shared_encounter_times \cap s.high_risk # {}
                        THEN @
                        ELSE @ \cup {[computation_id |-> computation_id,
                                      origin |-> params.origin]}]
                   /\ UNCHANGED <<current_chunk, rejected, faults>>
    /\ UNCHANGED <<now, done_chunks, computation_id_seed, mutex, rotator,
                   handler, budget, returned_ids, sealed, removed, downloads,
                   config, updater, flags, own_ids, processed, rounds>>
    /\ UNCHANGED <<forwarder, key_history, outsiders, traced_contacts,
                   black_list, calls>>

\* on_tek_forward: the forward RPC to a successor returned
RelayForwarded(p) ==
    /\ loop[p].pc = "forward"
    /\ loop[p].call.status = "replied"
    /\ Relay(p, [loop[p] EXCEPT !.call = NoCall])
    /\ UNCHANGED <<ds_vars, hist_vars, config, updater, inbox, computations,
                   flags, own_ids, processed, rounds, faults, log>>
    /\ UNCHANGED <<forwarder, key_history, outsiders, traced_contacts,
                   black_list, calls>>

\* the listener's timer fires when a computation period has passed without
\* a request for the window: nothing is left to download, to process or to
\* seal, and no forward is under way
Quiescent ==
    /\ current_chunk.data = EmptyData
    /\ \A p \in Participants :
        /\ loop[p].pc \in {"idle", "off", "panicked"}
        /\ inbox[p] = << >>
        /\ updater[p].pc \in {"tick", "off"}
        /\ updater[p].pc = "tick" =>
                get_chunks(done_chunks, updater[p].from) = << >>

\* Event::ComputationPeriodExpired: what the participant logs about itself
verdict(p) ==
    IF to_be_warned(p)
    THEN IF \/ flags[p].traced_contact
            \/ flags[p].transitive_contact
            \/ p \in config.positively_tested
         THEN "correct" ELSE "incorrect"
    ELSE IF \/ flags[p].traced_contact
            \/ flags[p].transitive_contact
            \/ p \in config.positively_tested
         THEN "incorrect" ELSE "correct"

ComputationPeriodExpired(p) ==
    /\ loop[p].pc = "idle"
    /\ Quiescent
    /\ log[p].verdict = "none"
    /\ log' = [log EXCEPT ![p].verdict = verdict(p)]
    /\ UNCHANGED <<ds_vars, hist_vars, config, updater, inbox, loop,
                   computations, flags, own_ids, processed, rounds, faults>>
    /\ UNCHANGED <<forwarder, key_history, outsiders, traced_contacts,
                   black_list, calls>>

(***************************************************************************)
(* The diagnosis server alone                                              *)
(***************************************************************************)
\* the chunk store under concurrent uploads and the rotator
NextStore == Tick \/ Rotator \/ Uploads

InitStore ==
    /\ \E start \in 0..(ChunkPeriod - 1) : InitServer(start, MaxUploads, 0)
    /\ InitParticipants(NoConfig, {}, 0)

SpecStore == InitStore /\ [][NextStore]_vars

\* the chunk store serving an upload and a download while it rotates; the
\* rotator and an upload that holds a lock are tasks that keep running, and
\* tokio's Mutex hands the lock to the waiters in turn
NextServe == NextStore \/ Download(0)

InitServe ==
    /\ \E start \in 0..(ChunkPeriod - 1) : InitServer(start, 1, 1)
    /\ InitParticipants(NoConfig, {}, 0)

FairServe ==
    /\ WF_vars(Tick)
    /\ WF_vars(RotatorSleep)
    /\ SF_vars(RotatorLockCurrent)
    /\ WF_vars(RotatorReplace)
    /\ WF_vars(RotatorPush)
    /\ \A h \in Handlers : WF_vars(BlacklistNextId(h)) /\ WF_vars(UploadInsert(h))

SpecServe == InitServe /\ [][NextServe]_vars /\ FairServe

\* the chunk store serving two downloads, at any two moments
NextPair == Tick \/ Rotator \/ \E from \in FromValues : Download(from)

InitPair ==
    /\ \E start \in 0..(ChunkPeriod - 1) : InitServer(start, 0, 2)
    /\ InitParticipants(NoConfig, {}, 0)

SpecPair == InitPair /\ [][NextPair]_vars

(***************************************************************************)
(* A participant's updater with the diagnosis server                       *)
(***************************************************************************)
\* the participants that start, sooner or later, while the server runs;
\* nobody is positively tested
Late == {"p1"}

NextUpd ==
    \/ Tick
    \/ Rotator
    \/ \E p \in Late :
        \/ Start(p)
        \/ init(p)
        \/ UpdaterDownload(p)
        \/ UpdaterNoChunks(p)
        \/ UpdaterDownloadFailed(p)
        \/ NewChunks(p)

InitUpd ==
    /\ \E start \in 0..(ChunkPeriod - 1) : InitServer(start, 0, 0)
    /\ InitParticipants(NoConfig, {}, 0)

\* the rotator, the event loop and the updater are tasks that keep running;
\* interval.tick() of the updater fires for ever, and of its downloads not
\* all fail
FairUpd ==
    /\ WF_vars(Rotator)
    /\ \A p \in Late :
        /\ WF_vars(init(p))
        /\ WF_vars(NewChunks(p))
        /\ SF_vars(UpdaterDownload(p))

SpecUpd == InitUpd /\ [][NextUpd]_vars /\ FairUpd

(***************************************************************************)
(* The participants with the diagnosis server                              *)
(***************************************************************************)
\* update(): one round of the rotator, which holds both locks from the
\* replacement of the current chunk to the push; time passes to the deadline
Rotate ==
    /\ Len(sealed) < MaxSeals
    /\ LET time == IF sleep_over(current_chunk.covers.to, now) THEN now
                   ELSE current_chunk.covers.to
           kept == add_done_chunk(done_chunks, current_chunk, time)
       IN  /\ now' = time
           /\ done_chunks' = kept
           /\ removed' = IF Len(kept) = Len(done_chunks) + 1 THEN removed
                         ELSE Append(removed,
                                [chunk |-> done_chunks[Len(done_chunks)],
                                 at |-> time])
    /\ current_chunk' = next_chunk(current_chunk)
    /\ sealed' = Append(sealed, current_chunk)
    /\ UNCHANGED <<computation_id_seed, mutex, rotator, handler, budget,
                   returned_ids, rejected, downloads, pn_vars>>

EventLoop(p) ==
    \/ init(p)
    \/ InitPanic(p)
    \/ NewChunks(p)
    \/ SendForward(p)
    \/ ForwardFailed(p)
    \/ MatchForwarded(p)
    \/ on_tek_forward(p)
    \/ RelayForwarded(p)

NextPN ==
    \/ Rotate
    \/ \E p \in Participants : UpdaterDownload(p) \/ EventLoop(p)

InitPN ==
    /\ InitServer(0, 0, 0)
    /\ \E cfg \in Configs : InitParticipants(cfg, nodes(cfg), MaxFaults)

SpecPN == InitPN /\ [][NextPN]_vars

\* three participants who all met each other, with one more RPC failure
Triangle ==
    [positively_tested |-> {"p0"},
     social_graph |->
        Chain \cup add_mutual_registration("p0", "p2", 1, "HighRisk")]

InitFaulty ==
    /\ InitServer(0, 0, 0)
    /\ InitParticipants(Triangle, nodes(Triangle), MaxFaults + 1)

SpecFaulty == InitFaulty /\ [][NextPN]_vars

\* four participants who all met each other at the same time, with one more
\* RPC failure; of the schedules of this scenario those are followed in which
\* the positively tested participant does not download, the first greylist
\* chunk holds the TEK of p1 and the second those of p2 and p3, and, while RPC
\* failures are left, p1 has recorded p2 and p3 has recorded p1 as successor
Mesh ==
    [positively_tested |-> {"p0"},
     social_graph |->
        UNION {UNION {add_mutual_registration(from, to, 1, "HighRisk") :
                        to \in Participants \ {from}} : from \in Participants}]

successor_teks(p, c) ==
    IF c \in DOMAIN computations[p]
    THEN {s.tek : s \in computations[p][c].successors}
    ELSE {}

greylisted(chunk) ==
    IF 0 \in DOMAIN chunk.data THEN chunk.data[0].greylist ELSE {}

OnTrack ==
    /\ faults <= MaxFaults =>
            "p2" \in successor_teks("p1", 0) /\ "p1" \in successor_teks("p3", 0)
    /\ updater["p0"].pc = "tick"
    /\ Len(sealed) >= 2 => greylisted(sealed[2]) = {"p1"}
    /\ Len(sealed) >= 3 => greylisted(sealed[3]) = {"p2", "p3"}

Scheduled == IF OnTrack THEN Participants ELSE {}

NextRing ==
    \/ OnTrack /\ Rotate
    \/ \E p \in Scheduled : UpdaterDownload(p) \/ EventLoop(p)

InitRing ==
    /\ InitServer(0, 0, 0)
    /\ InitParticipants(Mesh, nodes(Mesh), MaxFaults + 1)

SpecRing == InitRing /\ [][NextRing]_vars

(***************************************************************************)
(* The scenarios, without RPC failures, fairly scheduled                   *)
(***************************************************************************)
RunConfigs == (Scenarios \ {FourParty}) \cup Configs

NextRun ==
    \/ Rotate
    \/ \E p \in Participants :
        \/ UpdaterDownload(p)
        \/ init(p)
        \/ NewChunks(p)
        \/ SendForward(p)
        \/ MatchForwarded(p)
        \/ on_tek_forward(p)
        \/ RelayForwarded(p)
        \/ ComputationPeriodExpired(p)

InitRun ==
    /\ InitServer(0, 0, 0)
    /\ \E cfg \in RunConfigs : InitParticipants(cfg, nodes(cfg), 0)

\* every task is scheduled; the rotator seals as long as it may
FairRun ==
    /\ WF_vars(Rotate)
    /\ \A p \in Participants :
        /\ WF_vars(UpdaterDownload(p))
        /\ WF_vars(init(p))
        /\ WF_vars(NewChunks(p))
        /\ WF_vars(SendForward(p))
        /\ WF_vars(MatchForwarded(p))
        /\ WF_vars(on_tek_forward(p))
        /\ WF_vars(RelayForwarded(p))

SpecRun == InitRun /\ [][NextRun]_vars /\ FairRun

\* the scenario of four participants, without RPC failures
InitFour ==
    /\ InitServer(0, 0, 0)
    /\ InitParticipants(FourParty, nodes(FourParty), 0)

SpecFour == InitFour /\ [][NextRun]_vars

(***************************************************************************)
(* The participants' endpoints, open to any peer                           *)
(***************************************************************************)
MaxOutsiders == 1

\* the endpoints a peer outside the scenario sends to: the pooling node and
\* a relaying node
OpenEndpoints == {"p0", "p1"}

\* the parameters a peer may send: a known or an unknown computation id, the
\* TEK of a participant or of the peer ("p3") as predecessor, a first forward
\* or a relay on behalf of the peer, any exposure time
OutsideParams ==
    UNION {{[computation_id |-> computation_id, predecessor |-> predecessor,
             origin |-> origin, shared_encounter_times |-> {time}] :
                computation_id \in 0..1, origin \in {predecessor, "p3"},
                time \in ExposureTimes} : predecessor \in Participants}

\* handler.rs: a forward RPC of any peer is handed to the event loop
ForwardFromOutside(p) ==
    /\ outsiders > 0
    /\ outsiders' = outsiders - 1
    /\ listening(p)
    /\ \E params \in OutsideParams :
            inbox' = [inbox EXCEPT ![p] = Append(@,
                [NoEvent EXCEPT !.type = "NewForwardRequest",
                                !.params = params])]
    /\ UNCHANGED <<ds_vars, hist_vars, config, updater, loop, computations,
                   flags, own_ids, processed, rounds, faults, log, forwarder,
                   key_history, traced_contacts, black_list, calls>>

NextOpen == NextRun \/ \E p \in OpenEndpoints : ForwardFromOutside(p)

InitOpen ==
    /\ InitServer(0, 0, 0)
    /\ InitClients(Direct, nodes(Direct), 0)
    /\ forwarder = ForwarderServer_new(0)
    /\ key_history = NoKeys
    /\ outsiders = MaxOutsiders

SpecOpen == InitOpen /\ [][NextOpen]_vars

(***************************************************************************)
(* client/src/listener.rs : ForwarderServer                                *)
(***************************************************************************)
\* the task has not left its select!: its receiver is alive
receiving(task) == task.pc \in {"spawned", "sleep", "recv"}

\* the task is spawned and has not finished
alive(task) == task.pc \in {"spawned", "sleep", "recv", "expired"}

\* request: listening.lock().await.is_some(); the lock is released before
\* start or extend is called
request(c) ==
    /\ forwarder.callers[c] = "idle"
    /\ forwarder.allowed > 0
    /\ forwarder' = [forwarder EXCEPT
            !.allowed = @ - 1,
            !.callers[c] = IF forwarder.listening # 0 THEN "extend"
                           ELSE "start"]
    /\ UNCHANGED <<ds_vars, hist_vars, config, updater, inbox, loop,
                   computations, flags, own_ids, processed, rounds, faults,
                   log, key_history, outsiders, traced_contacts,
                   black_list, calls>>

\* start: a new channel, whose sender replaces what `listening` held (the
\* sender it held is dropped), and a new task
start(c) ==
    /\ forwarder.callers[c] = "start"
    /\ forwarder' = [forwarder EXCEPT
            !.listening = Len(forwarder.tasks) + 1,
            !.tasks = Append(@, [pc |-> "spawned", tokens |-> 0, slept |-> 0]),
            !.callers[c] = "idle"]
    /\ UNCHANGED <<ds_vars, hist_vars, config, updater, inbox, loop,
                   computations, flags, own_ids, processed, rounds, faults,
                   log, key_history, outsiders, traced_contacts,
                   black_list, calls>>

\* extend: under the lock, expect() panics on None; send(()) fails when the
\* receiver of the channel is gone
extend(c) ==
    /\ forwarder.callers[c] = "extend"
    /\ LET g == forwarder.listening
       IN  forwarder' =
                IF g = 0
                THEN [forwarder EXCEPT !.callers[c] = "panicked"]
                ELSE IF receiving(forwarder.tasks[g])
                THEN [forwarder EXCEPT !.tasks[g].tokens = @ + 1,
                                       !.sent = @ + 1,
                                       !.callers[c] = "idle"]
                ELSE [forwarder EXCEPT !.too_late = @ + 1,
                                       !.callers[c] = "idle"]
    /\ UNCHANGED <<ds_vars, hist_vars, config, updater, inbox, loop,
                   computations, flags, own_ids, processed, rounds, faults,
                   log, key_history, outsiders, traced_contacts,
                   black_list, calls>>

\* the spawned task is polled for the first time: timeout starts to sleep
\* and listen binds the endpoint, which fails while another task holds it;
\* the error ends the select! and is logged, `listening` stays as it is
listen(g) ==
    /\ g \in 1..Len(forwarder.tasks)
    /\ forwarder.tasks[g].pc = "spawned"
    /\ forwarder' =
            IF forwarder.bound = 0
            THEN [forwarder EXCEPT !.bound = g, !.tasks[g].pc = "sleep"]
            ELSE [forwarder EXCEPT !.tasks[g].pc = "failed"]
    /\ UNCHANGED <<ds_vars, hist_vars, config, updater, inbox, loop,
                   computations, flags, own_ids, processed, rounds, faults,
                   log, key_history, outsiders, traced_contacts,
                   black_list, calls>>

\* timeout: time::sleep(self.timeout) is over
timeout_sleep(g) ==
    /\ g \in 1..Len(forwarder.tasks)
    /\ forwarder.tasks[g].pc = "sleep"
    /\ forwarder' = [forwarder EXCEPT !.tasks[g].pc = "recv",
                                      !.tasks[g].slept = @ + 1]
    /\ UNCHANGED <<ds_vars, hist_vars, config, updater, inbox, loop,
                   computations, flags, own_ids, processed, rounds, faults,
                   log, key_history, outsiders, traced_contacts,
                   black_list, calls>>

\* timeout: rx.poll_recv is ready with a token (Some: sleep again) or, the
\* channel being empty and its sender dropped, with None: timeout returns
\* Ok, the select! drops listen and with it the socket.  The sender lives in
\* `listening` only; while it is there and no token waits, recv waits.
timeout_recv(g) ==
    /\ g \in 1..Len(forwarder.tasks)
    /\ forwarder.tasks[g].pc = "recv"
    /\ \/ /\ forwarder.tasks[g].tokens > 0
          /\ forwarder' = [forwarder EXCEPT !.tasks[g].tokens = @ - 1,
                                            !.tasks[g].pc = "sleep"]
       \/ /\ forwarder.tasks[g].tokens = 0
          /\ forwarder.listening # g
          /\ forwarder' = [forwarder EXCEPT !.tasks[g].pc = "expired",
                                            !.bound = 0]
    /\ UNCHANGED <<ds_vars, hist_vars, config, updater, inbox, loop,
                   computations, flags, own_ids, processed, rounds, faults,
                   log, key_history, outsiders, traced_contacts,
                   black_list, calls>>

\* the task after Ok from its select!: *listening = None, whatever it held
shutdown(g) ==
    /\ g \in 1..Len(forwarder.tasks)
    /\ forwarder.tasks[g].pc = "expired"
    /\ forwarder' = [forwarder EXCEPT !.listening = 0,
                                      !.tasks[g].pc = "cleared"]
    /\ UNCHANGED <<ds_vars, hist_vars, config, updater, inbox, loop,
                   computations, flags, own_ids, processed, rounds, faults,
                   log, key_history, outsiders, traced_contacts,
                   black_list, calls>>

\* the forwarder server of one participant under one to MaxRequests calls of
\* request() by two callers; a call that has begun and a spawned task go on,
\* whether a further call of request() comes is left open
NextListener ==
    \/ \E c \in Callers : request(c) \/ start(c) \/ extend(c)
    \/ \E g \in 1..MaxRequests :
            listen(g) \/ timeout_sleep(g) \/ timeout_recv(g) \/ shutdown(g)

InitListener ==
    /\ InitServer(0, 0, 0)
    /\ InitClients(NoConfig, {}, 0)
    /\ \E allowed \in 1..MaxRequests :
            forwarder = ForwarderServer_new(allowed)
    /\ key_history = NoKeys
    /\ outsiders = 0

FairListener ==
    /\ \A c \in Callers : WF_vars(start(c)) /\ WF_vars(extend(c))
    /\ \A g \in 1..MaxRequests :
            /\ WF_vars(listen(g))
            /\ WF_vars(timeout_sleep(g))
            /\ WF_vars(timeout_recv(g))
            /\ WF_vars(shutdown(g))

SpecListener == InitListener /\ [][NextListener]_vars /\ FairListener

(***************************************************************************)
(* The key history of one participant                                      *)
(***************************************************************************)
\* the TEK rolling periods tried: short ones, the default, and the two
\* around the largest whose tenfold fits into a u16
TekRollingPeriods == {1, 2, 3, 144, 6553, 6554}
\* the infection periods tried, in TEKRPs
MaxInfectionPeriod == 3
\* `today` of the configuration, in minutes since the epoch: some interval
\* number well after the epoch, the first and the last minute of the interval
BaseEnin == 1000000
MaxEninOffset == 3
Todays ==
    {EninMinutes * (BaseEnin + d) + r :
        d \in 0..MaxEninOffset, r \in {0, EninMinutes - 1}}
\* the interval numbers floor_tekrp_multiple is applied to
MaxEnin == 12
Enins == 0..MaxEnin \cup {BaseEnin + d : d \in 0..MaxEninOffset}

not_keys == <<ds_vars, hist_vars, config, updater, inbox, loop, computations,
              flags, own_ids, processed, rounds, faults, log, forwarder,
              outsiders, traced_contacts, black_list, calls>>

\* the configurator calls Keys::new(today, tekrp, infection_period); when the
\* duration of the TEKRP overflows, a debug build panics instead
KeysNew ==
    /\ key_history.pc = "new"
    /\ \/ key_history' = [key_history EXCEPT
                !.all = Keys_new(key_history.from, key_history.tekrp, key_history.infection_period),
                !.pc = "built"]
       \/ /\ tekrp_overflows(key_history.tekrp)
          /\ key_history' = [key_history EXCEPT !.pc = "panicked"]
    /\ UNCHANGED not_keys

\* Keys::exposure_keyring(at, tekrp) on the history that was built
KeysQuery(at) ==
    /\ key_history.pc = "built"
    /\ key_history' = [key_history EXCEPT !.queried =
            [at |-> at,
             hits |-> answering(key_history.all, at, key_history.tekrp),
             keyring |-> exposure_keyring(key_history.all, at, key_history.tekrp),
             done |-> TRUE]]
    /\ UNCHANGED not_keys

\* floor_tekrp_multiple applied to j, and to the result again
Floor(j) ==
    /\ key_history.pc # "off"
    /\ LET once == floor_tekrp_multiple(j, key_history.tekrp)
       IN  key_history' = [key_history EXCEPT !.floored =
                [j |-> j, once |-> once,
                 twice |-> floor_tekrp_multiple(once, key_history.tekrp),
                 done |-> TRUE]]
    /\ UNCHANGED not_keys

\* the interval numbers asked for: the first and the last interval of every
\* TEKRP from one before the infection period to one after today's
QueryTimes ==
    {floor_tekrp_multiple(en_interval_number(key_history.from), key_history.tekrp)
            + k * key_history.tekrp + r :
        k \in (0 - key_history.infection_period)..1, r \in {0, key_history.tekrp - 1}}

NextKeys ==
    \/ KeysNew
    \/ \E at \in QueryTimes : KeysQuery(at)
    \/ \E j \in Enins : Floor(j)

InitKeys ==
    /\ InitServer(0, 0, 0)
    /\ InitClients(NoConfig, {}, 0)
    /\ forwarder = ForwarderServer_new(0)
    /\ outsiders = 0
    /\ \E from \in Todays, tekrp \in TekRollingPeriods :
        \E infection_period \in 1..MaxInfectionPeriod :
            key_history = [NoKeys EXCEPT !.from = from, !.tekrp = tekrp,
                                  !.infection_period = infection_period,
                                  !.pc = "new"]

SpecKeys == InitKeys /\ [][NextKeys]_vars

(***************************************************************************)
(* exposurelib/src/client_state.rs: the buckets of the bluetooth layer     *)
(***************************************************************************)
\* BluetoothLayer::add: the contact is filed under the TEKRP window of its
\* exposure time, then under the exposure time, after the contacts that are
\* already there
BluetoothLayer_add(layer, traced_contact, tekrp) ==
    LET window == floor_tekrp_multiple(traced_contact.exposure_time, tekrp)
        encounters_at_tekrp_multiple ==
            IF window \in DOMAIN layer THEN layer[window]
            ELSE [time \in {} |-> << >>]
        encounters_at_exposure_time ==
            IF traced_contact.exposure_time \in DOMAIN encounters_at_tekrp_multiple
            THEN encounters_at_tekrp_multiple[traced_contact.exposure_time]
            ELSE << >>
    IN  [valid_from \in DOMAIN layer \cup {window} |->
            IF valid_from # window THEN layer[valid_from]
            ELSE [time \in DOMAIN encounters_at_tekrp_multiple
                            \cup {traced_contact.exposure_time} |->
                    IF time # traced_contact.exposure_time
                    THEN encounters_at_tekrp_multiple[time]
                    ELSE Append(encounters_at_exposure_time, traced_contact)]]

\* the positions in one bucket of the contacts whose observed RPI is the
\* one derived from the keyring for the exposure time they are filed under
matching_contacts(encounters_at_tekrp_multiple, tek) ==
    {at \in UNION {{<<time, i>> :
                i \in 1..Len(encounters_at_tekrp_multiple[time])} :
            time \in DOMAIN encounters_at_tekrp_multiple} :
        encounters_at_tekrp_multiple[at[1]][at[2]].rpi = rpi(tek, at[1])}

\* variant of BluetoothLayer::match_with that searches every bucket
BluetoothLayer_match_with_every_bucket(layer, with) ==
    LET found == UNION {{[time |-> at[1], aem |-> layer[w][at[1]][at[2]].aem] :
                at \in matching_contacts(layer[w], with.tek)} : w \in DOMAIN layer}
    IN  IF found = {} THEN NoMatch
        ELSE [connection_identifier |->
                (CHOOSE c \in found : TRUE).aem.connection_identifier,
              tek |-> with.tek,
              high_risk |-> {c.time :
                    c \in {h \in found : h.aem.intensity = "HighRisk"}},
              low_risk |-> {c.time :
                    c \in {h \in found : h.aem.intensity # "HighRisk"}}]

\* BluetoothLayer::match_with on the buckets: only the bucket of
\* with.valid_from is searched; None is NoMatch
BluetoothLayer_match_with(layer, with) ==
    IF with.valid_from \notin DOMAIN layer THEN NoMatch
    ELSE LET found == {[time |-> at[1],
                        aem |-> layer[with.valid_from][at[1]][at[2]].aem] :
                    at \in matching_contacts(layer[with.valid_from], with.tek)}
         IN  IF found = {} THEN NoMatch
             ELSE [connection_identifier |->
                     (CHOOSE c \in found : TRUE).aem.connection_identifier,
                   tek |-> with.tek,
                   high_risk |-> {c.time :
                         c \in {h \in found : h.aem.intensity = "HighRisk"}},
                   low_risk |-> {c.time :
                         c \in {h \in found : h.aem.intensity # "HighRisk"}}]

\* match_with panics when the matching contacts of the bucket do not all
\* carry the same connection identifier
match_with_panics(layer, with) ==
    /\ with.valid_from \in DOMAIN layer
    /\ \E a, b \in matching_contacts(layer[with.valid_from], with.tek) :
            layer[with.valid_from][a[1]][a[2]].aem.connection_identifier
                # layer[with.valid_from][b[1]][b[2]].aem.connection_identifier

MaxContacts == 3
ContactTekrp == 2
ContactTimes == 0..(2 * ContactTekrp - 1)
ContactTeks == {"p0", "p1"}

\* what a participant can observe: the RPI a TEK holder broadcasts at the
\* exposure time, or one it broadcast in another interval and that is
\* replayed now; the metadata carries the endpoint of the TEK holder
TracedContacts ==
    UNION {{[exposure_time |-> time, rpi |-> rpi(tek, sent),
             aem |-> [intensity |-> intensity, connection_identifier |-> tek]] :
                sent \in {time, (time + ContactTekrp) % (2 * ContactTekrp)},
                tek \in ContactTeks, intensity \in {"HighRisk", "LowRisk"}} :
            time \in ContactTimes}

\* the keyrings a downloaded chunk may hold: a TEK with the start of the
\* window it is valid in, windows without any contact included
Candidates ==
    {[valid_from |-> k * ContactTekrp, tek |-> tek] :
        k \in 0..2, tek \in ContactTeks}

not_layer == <<ds_vars, hist_vars, config, updater, inbox, loop, computations,
               flags, own_ids, processed, rounds, faults, log, forwarder,
               key_history, outsiders, black_list>>

\* the configurator, or the radio, hands one more contact to the layer
AddContact(traced_contact) ==
    /\ Len(calls.added) < MaxContacts
    /\ calls.matched = << >>
    /\ traced_contacts' =
            BluetoothLayer_add(traced_contacts, traced_contact, ContactTekrp)
    /\ calls' = [calls EXCEPT !.added = Append(@, traced_contact)]
    /\ UNCHANGED not_layer

\* process_chunk matches one keyring of a chunk against the layer
MatchWith(with) ==
    /\ calls.matched = << >>
    /\ calls' = [calls EXCEPT !.matched =
            <<[with |-> with,
               result |-> BluetoothLayer_match_with(traced_contacts, with),
               panicked |-> match_with_panics(traced_contacts, with)]>>]
    /\ UNCHANGED <<not_layer, traced_contacts>>

NextLayer ==
    \/ \E traced_contact \in TracedContacts : AddContact(traced_contact)
    \/ \E with \in Candidates : MatchWith(with)

InitLayer == InitServer(0, 0, 0) /\ InitParticipants(NoConfig, {}, 0)

SpecLayer == InitLayer /\ [][NextLayer]_vars

(***************************************************************************)
(* exposurelib/src/diagnosis_server_state.rs: DiagnosisKeys                *)
(***************************************************************************)
\* DiagnosisKeys::insert: the keys of the batch that the list does not hold
\* yet are filed under the arrival time, which is Utc::now()
DiagnosisKeys_insert(list, batch, arrival_time) ==
    LET new == batch \ list.diagnosis_keys
        filed == IF arrival_time \in DOMAIN list.by_arrival_time
                 THEN list.by_arrival_time[arrival_time] ELSE {}
    IN  [diagnosis_keys |-> list.diagnosis_keys \cup batch,
         by_arrival_time |->
            IF new = {} THEN list.by_arrival_time
            ELSE [time \in DOMAIN list.by_arrival_time \cup {arrival_time} |->
                    IF time = arrival_time THEN filed \cup new
                    ELSE list.by_arrival_time[time]]]

NoneKeys == [some |-> FALSE, keys |-> {}]

SomeKeys(batch) == [some |-> TRUE, keys |-> batch]

\* the fold of get_from over the entries of the range, oldest first
RECURSIVE fold_range(_, _, _)
fold_range(by_arrival_time, range, acc) ==
    IF range = {} THEN acc
    ELSE LET time == CHOOSE t \in range : \A u \in range : t <= u
             cur_keys == by_arrival_time[time]
         IN  fold_range(by_arrival_time, range \ {time},
                [time |-> time,
                 keys |-> IF acc.keys.some
                          THEN SomeKeys(acc.keys.keys \cup cur_keys)
                          ELSE SomeKeys(cur_keys)])

\* DiagnosisKeys::get_from: the entries of from..=now without the one filed
\* under `from`, united, with the arrival time of the last of them
get_from(list, from, utc_now) ==
    IF from > utc_now THEN [time |-> utc_now, keys |-> NoneKeys]
    ELSE LET range == {t \in DOMAIN list.by_arrival_time :
                            from <= t /\ t <= utc_now}
         IN  IF range = {} THEN [time |-> from, keys |-> NoneKeys]
             ELSE LET first == CHOOSE t \in range : \A u \in range : t <= u
                      start_with ==
                        IF first = from THEN [time |-> from, keys |-> NoneKeys]
                        ELSE [time |-> first,
                              keys |-> SomeKeys(list.by_arrival_time[first])]
                  IN  fold_range(list.by_arrival_time, range \ {first},
                                 start_with)

MaxInserts == 2
MaxFetches == 3
ListKeys == {"k1", "k2", "k3"}
Batches == SUBSET ListKeys \ {{}}

not_list == <<current_chunk, done_chunks, computation_id_seed, mutex,
              rotator, handler, budget, hist_vars, config, updater, inbox,
              loop, computations, flags, own_ids, processed, rounds, faults,
              log, forwarder, key_history, outsiders, traced_contacts>>

\* an upload hands a batch to the list
Insert(batch) ==
    /\ Len(calls.inserted) < MaxInserts
    /\ black_list' = DiagnosisKeys_insert(black_list, batch, now)
    /\ calls' = [calls EXCEPT !.inserted = Append(@,
            [batch |-> batch, new |-> batch \ black_list.diagnosis_keys,
             at |-> now, fetches |-> Len(calls.fetched)])]
    /\ UNCHANGED <<now, not_list>>

\* a download: the first one with any `from`, a later one with the time the
\* one before it returned
GetFrom(from) ==
    /\ Len(calls.fetched) < MaxFetches
    /\ calls.fetched # << >> => from = calls.fetched[Len(calls.fetched)].time
    /\ LET got == get_from(black_list, from, now)
       IN  calls' = [calls EXCEPT !.fetched = Append(@,
                [from |-> from, at |-> now, time |-> got.time,
                 keys |-> got.keys, inserts |-> Len(calls.inserted)])]
    /\ UNCHANGED <<now, black_list, not_list>>

NextList ==
    \/ Tick
    \/ \E batch \in Batches : Insert(batch)
    \/ \E from \in 0..MaxTime : GetFrom(from)

InitList == InitServer(0, 0, 0) /\ InitParticipants(NoConfig, {}, 0)

SpecList == InitList /\ [][NextList]_vars

(***************************************************************************)
(* Properties of the chunk store                                           *)
(***************************************************************************)
SeqSet(s) == {s[i] : i \in 1..Len(s)}

Occurrences(s, x) == Cardinality({i \in 1..Len(s) : s[i] = x})

InCovers(chunk, time) == chunk.covers.from <= time /\ time < chunk.covers.to

NewestFirst(s) ==
    \A i \in 1..(Len(s) - 1) : s[i].covers.from >= s[i + 1].covers.to

Contiguous(s) ==
    \A i \in 1..(Len(s) - 1) : s[i].covers.from = s[i + 1].covers.to

\* the chunks the server holds, newest first
Held == <<current_chunk>> \o done_chunks

\* C1: download({from}) returns, newest first, exactly the done chunks in
\* front of the first done chunk whose covers contains `from`; that chunk and
\* all older ones are left out; the result is empty when there is no done
\* chunk or when from >= covers.from of the newest done chunk.
C1_DownloadResult ==
    available("done_chunks") =>
        \A from \in FromValues :
            LET result == get_chunks(done_chunks, from)
                n == Len(result)
            IN  /\ n <= Len(done_chunks)
                /\ result = SubSeq(done_chunks, 1, n)
                /\ \A i \in 1..n : ~InCovers(done_chunks[i], from)
                /\ n < Len(done_chunks) =>
                      \/ InCovers(done_chunks[n + 1], from)
                      \/ from >= done_chunks[1].covers.from
                /\ (done_chunks # << >>
                        /\ from >= done_chunks[1].covers.from) => n = 0

\* C1 witness: a download that returns some chunks and leaves out others
C1_Witness ==
    /\ available("done_chunks")
    /\ Len(done_chunks) >= 3
    /\ \E from \in FromValues :
          /\ Len(get_chunks(done_chunks, from)) = 2
          /\ InCovers(done_chunks[3], from)

\* C2: every chunk a download({from: X}) returns is a sealed chunk with
\* covers.to <= now and covers.from > X; the current chunk is never returned,
\* whatever uploads and rotations are in progress.
C2_SealedOnly ==
    available("done_chunks") =>
        \A from \in FromValues :
            \A chunk \in SeqSet(get_chunks(done_chunks, from)) :
                /\ chunk.covers.to <= now
                /\ chunk.covers.from > from
                /\ chunk.covers # current_chunk.covers
                /\ chunk \in SeqSet(sealed)

\* C2 witness: a non-empty download while an upload holds the current chunk,
\* which already has content
C2_Witness ==
    /\ available("done_chunks")
    /\ \E from \in FromValues : get_chunks(done_chunks, from) # << >>
    /\ \E h \in Handlers : handler[h].pc = "done_chunks"
    /\ current_chunk.data # EmptyData
    /\ now > current_chunk.covers.from

\* C6: the ids returned by blacklist_upload are 0, 1, 2, ... in the order of
\* the calls, so no id is returned twice, and the seed has advanced by
\* exactly one per call.
C6_UniqueIds ==
    /\ \A i \in 1..Len(returned_ids) : returned_ids[i] = i - 1
    /\ \A h \in Handlers :
          (handler[h].list = "Blacklist" /\ handler[h].pc = "done_chunks") =>
              handler[h].computation_id = Len(returned_ids)
    /\ computation_id_seed = Len(returned_ids) +
          Cardinality({h \in Handlers : handler[h].list = "Blacklist"
                                        /\ handler[h].pc = "done_chunks"})

\* C6 witness: two blacklist uploads have returned
C6_Witness == Len(returned_ids) = 2 /\ Len(sealed) >= 1

\* C7: for each computation id and each list, no TEK is in more than one of
\* the chunks held by the server (done chunks and current chunk).
C7_NoTekInTwoChunks ==
    \A id \in ComputationIds, list \in Lists, tek \in TEKs :
        Cardinality({i \in 1..Len(Held) :
            /\ id \in DOMAIN Held[i].data
            /\ tek \in list_of(Held[i].data[id], list)}) <= 1

\* C7 witness: an upload found its TEK in a done chunk and did not insert it
C7_Witness ==
    \E r \in rejected :
        /\ \E i \in 1..Len(done_chunks) :
              /\ r.computation_id \in DOMAIN done_chunks[i].data
              /\ r.tek \in list_of(done_chunks[i].data[r.computation_id],
                                   r.list)
        /\ current_chunk.data # EmptyData

\* C8: a chunk in done_chunks is the chunk as it was pushed; no upload runs
\* while the rotator holds the chunks; an upload changes only the chunk that
\* is current when it inserts, and puts every accepted TEK there.
C8_SealedReadOnly ==
    /\ [](\A i \in 1..Len(done_chunks) :
              done_chunks[i] = sealed[Len(sealed) + 1 - i])
    /\ [](rotator.pc \in {"lock_done", "push"} =>
              \A h \in Handlers : handler[h].pc = "idle")
    /\ [][\A h \in Handlers :
            (handler[h].pc = "done_chunks" /\ handler'[h].pc = "idle") =>
                /\ done_chunks' = done_chunks
                /\ sealed' = sealed
                /\ current_chunk'.covers = current_chunk.covers
                /\ \A k \in handler[h].diagnosis_keys :
                      \/ [list |-> handler[h].list,
                          computation_id |-> handler[h].computation_id,
                          tek |-> k] \in rejected'
                      \/ /\ handler[h].computation_id
                                \in DOMAIN current_chunk'.data
                         /\ k \in list_of(
                              current_chunk'.data[handler[h].computation_id],
                              handler[h].list)]_vars
    /\ [][current_chunk'.covers = current_chunk.covers =>
            (done_chunks' = done_chunks \/ rotator.pc = "push")]_vars

\* C8 witness: uploads went into a chunk before it was sealed and into its
\* successor
C8_Witness ==
    /\ Len(done_chunks) >= 1
    /\ done_chunks[1].data # EmptyData
    /\ current_chunk.data # EmptyData

\* C9: chunks leave done_chunks only when the rotator pushes, oldest first,
\* one per push, and exactly when the oldest chunk's covers.to is at most
\* now - retention_period.
C9_FifoPruning ==
    /\ [](/\ Len(removed) <= Len(sealed)
          /\ \A i \in 1..Len(removed) :
                /\ removed[i].chunk = sealed[i]
                /\ removed[i].chunk.covers.to <= removed[i].at - RetentionPeriod
          /\ Len(done_chunks) = Len(sealed) - Len(removed)
          /\ \A i \in 1..Len(done_chunks) :
                done_chunks[i] = sealed[Len(sealed) + 1 - i])
    /\ [][sealed' # sealed =>
            LET oldest == IF done_chunks = << >> THEN rotator.chunk
                          ELSE done_chunks[Len(done_chunks)]
            IN  IF oldest.covers.to <= now - RetentionPeriod
                THEN Len(removed') = Len(removed) + 1
                ELSE removed' = removed]_vars
    /\ [][sealed' = sealed =>
            (removed' = removed /\ done_chunks' = done_chunks)]_vars

\* C9 witness: the oldest chunk was pruned and younger ones are kept
C9_Witness == Len(removed) >= 1 /\ Len(done_chunks) >= 2

(***************************************************************************)
(* Properties of two downloads                                             *)
(***************************************************************************)
\* the second download carries the `from` the client feeds back
FedBack(first, second) ==
    IF first.chunks = << >>
    THEN second.from = first.from
    ELSE second.from = first.chunks[1].covers.from

\* C3 as stated: for two downloads with non-decreasing `from`, every sealed
\* chunk is in the concatenation of the results exactly once.
C3_Original ==
    (Len(downloads) = 2 /\ downloads[1].from <= downloads[2].from) =>
        \A chunk \in SeqSet(downloads[1].held) \cup SeqSet(downloads[2].held) :
            Occurrences(downloads[1].chunks \o downloads[2].chunks, chunk) = 1

\* C3 amended: when the second `from` is the value the client feeds back,
\* the two results share no chunk, each is newest first and made of whole
\* sealed chunks, and together they hold, exactly once, every chunk with
\* covers.from > the first `from` that the server held at either call.
C3_FedBackDownloads ==
    (Len(downloads) = 2 /\ FedBack(downloads[1], downloads[2])) =>
        LET first == downloads[1]
            second == downloads[2]
        IN  /\ SeqSet(first.chunks) \cap SeqSet(second.chunks) = {}
            /\ NewestFirst(first.chunks)
            /\ NewestFirst(second.chunks)
            /\ SeqSet(first.chunks) \cup SeqSet(second.chunks)
                    \subseteq SeqSet(sealed)
            /\ \A chunk \in SeqSet(first.held) \cup SeqSet(second.held) :
                  chunk.covers.from > first.from =>
                      Occurrences(second.chunks \o first.chunks, chunk) = 1

\* C3 witness: both downloads returned chunks
C3_Witness ==
    /\ Len(downloads) = 2
    /\ FedBack(downloads[1], downloads[2])
    /\ Len(downloads[1].chunks) >= 2
    /\ Len(downloads[2].chunks) >= 2

\* the first download of the scenario: from = t0 - 5 * chunk_period, with a
\* result; the second one two chunk periods later
Scenario6(first, second) ==
    /\ first.from + 5 * ChunkPeriod \in 0..(ChunkPeriod - 1)
    /\ first.chunks # << >>
    /\ second.at = first.at + 2 * ChunkPeriod

\* C4 as stated: with the second from = covers.to of the newest chunk of the
\* first batch, the second batch is strictly newer and the union is a
\* contiguous run of intervals.
C4_Original ==
    (/\ Len(downloads) = 2
     /\ Scenario6(downloads[1], downloads[2])
     /\ downloads[2].from = downloads[1].chunks[1].covers.to) =>
        /\ \A chunk \in SeqSet(downloads[2].chunks) :
              chunk.covers.from >= downloads[1].chunks[1].covers.to
        /\ Contiguous(downloads[2].chunks \o downloads[1].chunks)

\* C4 amended: with the second from = covers.from of the newest chunk of the
\* first batch, the second batch is strictly newer and the union is a
\* contiguous run of intervals without overlap.
C4_ChunkMonotonicity ==
    (/\ Len(downloads) = 2
     /\ Scenario6(downloads[1], downloads[2])
     /\ downloads[2].from = downloads[1].chunks[1].covers.from) =>
        /\ \A chunk \in SeqSet(downloads[2].chunks) :
              chunk.covers.from >= downloads[1].chunks[1].covers.to
        /\ Contiguous(downloads[2].chunks \o downloads[1].chunks)
        /\ \A chunk \in SeqSet(downloads[2].chunks) :
              chunk \notin SeqSet(downloads[1].chunks)

\* C4 witness: the second batch of the scenario holds the chunks sealed in
\* between
C4_Witness ==
    /\ Len(downloads) = 2
    /\ Scenario6(downloads[1], downloads[2])
    /\ downloads[2].from = downloads[1].chunks[1].covers.from
    /\ Len(downloads[2].chunks) = 2

(***************************************************************************)
(* Properties of the updater                                               *)
(***************************************************************************)
running(p) == loop[p].pc \notin {"off", "panicked"}

\* the covers of the chunks the server can seal before the clock stops
SealableCovers ==
    {with_duration(k * ChunkPeriod, ChunkPeriod) : k \in 0..MaxTime}

held(covers) == \E i \in 1..Len(done_chunks) : done_chunks[i].covers = covers

\* C5 as stated: a running participant's `from` is never past a chunk that
\* the server holds within retention and that was not given to
\* process_chunk.
C5_Original ==
    \A p \in Late :
        \A chunk \in SeqSet(done_chunks) :
            (/\ running(p)
             /\ chunk.covers.to > now - RetentionPeriod
             /\ chunk.covers.from <= updater[p].from)
                => chunk.covers \in processed[p]

\* C5 amended: of the chunks that begin after the `from` the participant
\* started with, the participant's `from` is never past one that the server
\* holds and that was not given to process_chunk, and each one the server
\* holds is eventually given to process_chunk unless the server prunes it
\* first, whatever rounds of the updater fail or return no chunk.
C5_NoChunkSkipped ==
    /\ [](\A p \in Late :
            \A chunk \in SeqSet(done_chunks) :
                (/\ running(p)
                 /\ chunk.covers.from > rounds[p].first_from
                 /\ chunk.covers.from <= updater[p].from)
                    => chunk.covers \in processed[p])
    /\ \A p \in Late :
         \A covers \in SealableCovers :
            (running(p) /\ held(covers)
                /\ covers.from > rounds[p].first_from)
                    ~> (covers \in processed[p] \/ ~held(covers))

\* C5 witness: after a failed round and a round without chunks the
\* participant has processed chunks of two batches, all that the server
\* holds
C5_Witness ==
    \E p \in Late :
        /\ rounds[p].failed
        /\ rounds[p].empty
        /\ updater[p].from > rounds[p].first_from
        /\ Cardinality(processed[p]) >= 3
        /\ \E chunk \in SeqSet(done_chunks) :
                chunk.covers.from < updater[p].from
                    /\ chunk.covers \in processed[p]
        /\ \A chunk \in SeqSet(done_chunks) : chunk.covers \in processed[p]

(***************************************************************************)
(* Properties of the participants' computations                            *)
(***************************************************************************)
\* C10: at any instant, for every participant and every entry of its
\* computations table, is_own() holds if and only if the entry was created
\* by the participant's own blacklist_upload at init: an own computation
\* never acquires a successor, and an entry created by on_tek_match never
\* has an empty successor set.
C10_IsOwnIffCreatedByInit ==
    \A p \in Participants :
        \A computation_id \in DOMAIN computations[p] :
            is_own(computations[p][computation_id])
                <=> computation_id \in own_ids[p]

\* C10 witness: a pooling node holds its own computation while another
\* participant holds an entry of the same computation that on_tek_match
\* created, with a successor
C10_Witness ==
    \E p \in Participants, q \in Participants :
        \E computation_id \in own_ids[p] :
            /\ computation_id \in DOMAIN computations[p]
            /\ is_own(computations[p][computation_id])
            /\ computation_id \in DOMAIN computations[q]
            /\ computation_id \notin own_ids[q]
            /\ ~is_own(computations[q][computation_id])

(***************************************************************************)
(* Properties of the forwarding protocol                                   *)
(***************************************************************************)
\* C11: the pooling node is the sole uploader to a computation's greylist:
\* greylist_upload for a computation id is only ever called by the
\* participant that got the id from its own blacklist_upload; a participant
\* that relays never uploads to the greylist.
C11_SoleUploader ==
    \A p \in Participants :
        \A upload \in log[p].uploads :
            /\ upload.computation_id \in own_ids[p]
            /\ \A q \in Participants \ {p} :
                    upload.computation_id \notin own_ids[q]

\* C11 witness: the pooling node has uploaded the TEK of a participant whose
\* forward was relayed to it by another participant
C11_Witness ==
    \E p \in Participants, q \in Participants :
        /\ p # q
        /\ \E upload \in log[p].uploads : upload.tek \notin all_teks(q)
        /\ \E i \in 1..Len(log[q].forwards) :
                /\ log[q].forwards[i].to = p
                /\ ~is_first_forward(log[q].forwards[i].params)
        /\ log[q].uploads = {}

\* a forward of the origin for the computation came to an end before the
\* pooling node: a participant dropped it or had no successor to relay it to
Declined(computation_id, origin) ==
    \E p \in Participants :
        [computation_id |-> computation_id, origin |-> origin]
            \in log[p].declined

\* the participant has sent a first forward for the computation
FirstForwarded(x, computation_id) ==
    \E i \in 1..Len(log[x].forwards) :
        /\ log[x].forwards[i].params.computation_id = computation_id
        /\ is_first_forward(log[x].forwards[i].params)

\* a TEK of the participant is in the greylist of the computation in a
\* sealed chunk
Greylisted(x, computation_id) ==
    \E i \in 1..Len(done_chunks) :
        /\ computation_id \in DOMAIN done_chunks[i].data
        /\ \E tek \in done_chunks[i].data[computation_id].greylist :
                is_own_tek(x, tek)

\* the rotator has come to the bound with keys that it will not seal
SealingOver == Len(sealed) = MaxSeals /\ current_chunk.data # EmptyData

warned(p) ==
    \/ flags[p].traced_contact
    \/ flags[p].transitive_contact
    \/ p \in config.positively_tested

\* C13: once the protocol is quiescent, a participant is a traced contact, a
\* transitive contact or positively tested if and only if the ground truth
\* marks it as to be warned
C13_VerdictMatchesGroundTruth ==
    Quiescent => \A p \in nodes(config) : warned(p) <=> to_be_warned(p)

C13_Witness ==
    /\ Quiescent
    /\ \E p \in nodes(config) :
        /\ flags[p].transitive_contact
        /\ ~flags[p].traced_contact
        /\ to_be_warned(p)
        /\ log[p].verdict = "correct"

\* the participant was given a sealed chunk that has `tek` on list `list` of
\* some computation
Processed(p, tek, list) ==
    \E i \in 1..Len(sealed) :
        /\ sealed[i].covers \in processed[p]
        /\ \E c \in DOMAIN sealed[i].data : tek \in sealed[i].data[c][list]

\* C14: two participants with a mutual high-risk encounter, p0 positively
\* tested: once p1 has processed the chunk with p0's blacklist TEK it has
\* raised exactly one high-risk traced-contact alert, never more than one, and
\* neither participant ever raises a transitive-contact alert
C14_DirectAlert ==
    config = Direct =>
        /\ log["p1"].traced_contact <= 1
        /\ Processed("p1", "p0", "blacklist") => log["p1"].traced_contact = 1
        /\ log["p0"].traced_contact = 0
        /\ log["p0"].transitive_contact = 0
        /\ log["p1"].transitive_contact = 0

C14_Witness ==
    /\ config = Direct
    /\ Quiescent
    /\ Processed("p1", "p0", "blacklist")
    /\ Processed("p1", "p1", "greylist")
    /\ Processed("p0", "p1", "greylist")
    /\ log["p1"].traced_contact = 1

\* the alerts a participant has raised: high-risk traced contact, low-risk
\* traced contact, transitive contact
alerts(p) ==
    <<log[p].traced_contact, log[p].low_risk_contact,
      log[p].transitive_contact>>

\* C15: the chain p0-p1-p2 with p3 also in mutual high-risk contact with p1,
\* p0 positively tested: p1 raises one high-risk traced-contact alert and,
\* being a traced contact already, no transitive-contact alert when it finds
\* its own TEK on the greylist (the flag is set all the same); p2 and p3 raise
\* exactly one transitive-contact alert each once they have processed the
\* chunk with their own greylist TEK, and no other alert
C15_FourParty ==
    config = FourParty =>
        /\ alerts("p0") = <<0, 0, 0>>
        /\ alerts("p1") \in {<<0, 0, 0>>, <<1, 0, 0>>}
        /\ Processed("p1", "p1", "greylist") =>
                /\ alerts("p1") = <<1, 0, 0>>
                /\ flags["p1"].transitive_contact
        /\ \A x \in {"p2", "p3"} :
            /\ alerts(x) \in {<<0, 0, 0>>, <<0, 0, 1>>}
            /\ Processed(x, x, "greylist") => alerts(x) = <<0, 0, 1>>

\* C15 as stated: p1 raises exactly one transitive-contact alert once its TEK
\* is on the greylist, p2 and p3 raise no alert
C15_Original ==
    config = FourParty =>
        /\ Processed("p1", "p1", "greylist") =>
                log["p1"].transitive_contact = 1
        /\ alerts("p2") = <<0, 0, 0>>
        /\ alerts("p3") = <<0, 0, 0>>

C15_Witness ==
    /\ config = FourParty
    /\ Quiescent
    /\ Processed("p1", "p1", "greylist")
    /\ alerts("p1") = <<1, 0, 0>>
    /\ alerts("p2") = <<0, 0, 1>>
    /\ alerts("p3") = <<0, 0, 1>>

\* on_tek_match in local state st, leading to next, left everything but the
\* low-risk alert as it was and has no forward RPC to send
NothingStarted(st, next, from) ==
    /\ next.loop.call = NoCall
    /\ next.computations = st.computations
    /\ next.flags = st.flags
    /\ next.log.requests = st.log.requests
    /\ next.log.forwards = st.log.forwards
    /\ next.log.traced_contact = st.log.traced_contact
    /\ next.log.low_risk_contact =
            st.log.low_risk_contact + (IF from = "Blacklist" THEN 1 ELSE 0)

\* C16: a match without a high-risk encounter starts nothing: no request for
\* the forwarder window, no forward RPC, no successor, no computation entry,
\* traced_contact not set; a blacklist match raises a low-risk alert.  In the
\* low-risk scenario p1 therefore never does any of these.
C16_LowRiskDoesNotPropagate ==
    /\ \A p \in nodes(config) : \A tek \in UNION {all_teks(q) : q \in Participants} :
        LET matched == match_with(bluetooth_layer(p), tek)
        IN  (matched # NoMatch /\ matched.high_risk = {}) =>
                \A from \in {"Blacklist", "Greylist"} :
                    \A computation_id \in ComputationIds :
                        NothingStarted(Local(p),
                            on_tek_match(p, Local(p), tek, from,
                                         computation_id), from)
    /\ config = LowRiskOnly =>
        /\ log["p1"].requests = 0
        /\ log["p1"].forwards = << >>
        /\ computations["p1"] = << >>
        /\ ~flags["p1"].traced_contact
        /\ log["p1"].traced_contact = 0
        /\ Processed("p1", "p0", "blacklist") => log["p1"].low_risk_contact = 1

C16_Witness ==
    /\ config = LowRiskOnly
    /\ Quiescent
    /\ Processed("p1", "p0", "blacklist")
    /\ log["p1"].low_risk_contact = 1

\* the forward RPCs of its own TEK that participant p has sent
first_forwards(p) ==
    {i \in 1..Len(log[p].forwards) : log[p].forwards[i].params.origin = p}

NoFurtherRequest ==
    /\ forwarder.allowed = 0
    /\ forwarder.tasks # << >>
    /\ \A c \in Callers : forwarder.callers[c] \in {"idle", "panicked"}

\* the accept loop is shut down and `listening` is None
WindowClosed == forwarder.listening = 0 /\ forwarder.bound = 0

\* C18: when request() was called and no further call follows, the listener
\* eventually shuts down its accept loop and `listening` is reset to None
C18_WindowExpires == NoFurtherRequest ~> WindowClosed

C18_Witness ==
    /\ NoFurtherRequest
    /\ Len(forwarder.tasks) = 1
    /\ forwarder.tasks[1].pc = "recv"
    /\ forwarder.tasks[1].slept = 1
    /\ forwarder.tasks[1].tokens = 0
    /\ forwarder.listening = 1
    /\ forwarder.bound = 1

\* C19: no request() is lost: extend never finds `listening` empty, its token
\* is never refused, and a token that was sent waits in the channel of a
\* task that will take it and sleep again
C19_NoRequestLost ==
    /\ forwarder.too_late = 0
    /\ \A c \in Callers : forwarder.callers[c] # "panicked"
    /\ \A g \in 1..Len(forwarder.tasks) :
            forwarder.tasks[g].tokens > 0 => receiving(forwarder.tasks[g])

C19_Witness ==
    /\ forwarder.sent >= 1
    /\ Len(forwarder.tasks) = 1
    /\ forwarder.tasks[1].slept = 2
    /\ forwarder.tasks[1].tokens = 0
    /\ forwarder.listening = 1

\* the listener tasks that are spawned and have not finished
listener_tasks ==
    {g \in 1..Len(forwarder.tasks) : alive(forwarder.tasks[g])}

\* C20: at most one listener task exists at any time
C20_AtMostOneTask == Cardinality(listener_tasks) <= 1

C20_Witness ==
    /\ Cardinality(listener_tasks) = 1
    /\ \A c \in Callers : forwarder.callers[c] = "extend"

(***************************************************************************)
(* Properties of the participant's handlers                                *)
(***************************************************************************)
\* C21: a blacklist_upload that fails at init does not end the event loop of
\* a positively tested participant, and once init is over the participant
\* has its own computation, with no successor when it was registered
C21_InitUploadRetried ==
    \A p \in config.positively_tested :
        /\ loop[p].pc # "panicked"
        /\ loop[p].pc \notin {"off", "init"} => own_ids[p] # {}

C21_Witness ==
    \E p \in config.positively_tested :
        /\ faults = MaxFaults
        /\ loop[p].pc = "idle"
        /\ \E computation_id \in own_ids[p] :
                computations[p][computation_id] = Computation_default

\* every chunk of the sequence covers one chunk period
EqualDuration(s) == \A i \in 1..Len(s) : duration(s[i].covers) = ChunkPeriod

\* the chunks of the server, newest first, with the sealed chunk that the
\* rotator holds as a local between mem::replace and add_done_chunk
AllChunks ==
    IF rotator.pc = "push"
    THEN <<current_chunk, rotator.chunk>> \o done_chunks
    ELSE Held

\* C22: the current chunk and the done chunks form, newest first, a gap-free
\* and overlap-free sequence of half-open intervals of equal duration
C22_ContiguousChunks ==
    /\ Contiguous(AllChunks)
    /\ EqualDuration(AllChunks)
    /\ next_interval(current_chunk.covers).from = current_chunk.covers.to
    /\ duration(next_interval(current_chunk.covers))
            = duration(current_chunk.covers)

C22_Witness ==
    /\ Len(done_chunks) >= 2
    /\ Len(removed) >= 1
    /\ rotator.pc = "push"

(***************************************************************************)
(* Properties of the key history                                           *)
(***************************************************************************)
\* C23: floor_tekrp_multiple is idempotent, yields a multiple of the TEKRP,
\* and yields the start of the TEKRP window that holds j
C23_FloorProjection ==
    key_history.floored.done =>
        /\ key_history.floored.twice = key_history.floored.once
        /\ key_history.floored.once % key_history.tekrp = 0
        /\ key_history.floored.once <= key_history.floored.j
        /\ key_history.floored.j < key_history.floored.once + key_history.tekrp

C23_Witness ==
    /\ key_history.floored.done
    /\ key_history.tekrp = 144
    /\ key_history.floored.once < key_history.floored.j
    /\ key_history.floored.once > 0

\* the history holds one keyring per TEKRP of the infection period, newest
\* first, the newest one for the TEKRP of today
ConsecutiveWindows(all, from, tekrp, infection_period) ==
    /\ Len(all) = infection_period
    /\ all[1].valid_from = floor_tekrp_multiple(en_interval_number(from), tekrp)
    /\ \A k \in 1..Len(all) : all[k].valid_from % tekrp = 0
    /\ \A k \in 1..(Len(all) - 1) :
            all[k + 1].valid_from = all[k].valid_from - tekrp

\* the interval number lies in one of the TEKRPs of the infection period
Covered(at, from, tekrp, infection_period) ==
    LET newest == floor_tekrp_multiple(en_interval_number(from), tekrp)
    IN  /\ newest - (infection_period - 1) * tekrp <= at
        /\ at < newest + tekrp

\* exactly one keyring answers for a covered interval number, none otherwise
OneAnswer(query, from, tekrp, infection_period) ==
    IF Covered(query.at, from, tekrp, infection_period)
    THEN Cardinality(query.hits) = 1 /\ query.keyring # NoKeyring
    ELSE query.hits = {} /\ query.keyring = NoKeyring

\* C24: Keys::new yields infection_period keyrings, newest first, with
\* aligned valid_from values of consecutive TEKRPs; exactly one of them
\* answers a query for an interval number of the covered range, none outside
C24_KeyHistory ==
    /\ key_history.pc # "panicked"
    /\ key_history.pc = "built" =>
        /\ ConsecutiveWindows(key_history.all, key_history.from,
                key_history.tekrp, key_history.infection_period)
        /\ key_history.queried.done =>
                OneAnswer(key_history.queried, key_history.from,
                    key_history.tekrp, key_history.infection_period)

C24_Witness ==
    /\ key_history.pc = "built"
    /\ key_history.tekrp = 144
    /\ key_history.infection_period = MaxInfectionPeriod
    /\ key_history.queried.done
    /\ key_history.queried.keyring = MaxInfectionPeriod

\* participant p was given a sealed chunk with an entry for a computation it
\* takes part in whose greylist holds one of its own TEKs
SawOwnTekGreylisted(p) ==
    \E i \in 1..Len(sealed) :
        /\ sealed[i].covers \in processed[p]
        /\ \E c \in DOMAIN sealed[i].data \cap DOMAIN computations[p] :
                \E tek \in sealed[i].data[c].greylist : is_own_tek(p, tek)

\* process_chunk comes once more to an entry of computation c whose greylist
\* holds an own TEK of p
Reobserved(p, c) ==
    process_computation(p,
        [Local(p) EXCEPT !.loop.data =
            [d \in {c} |-> [blacklist |-> {}, greylist |-> all_teks(p)]]],
        c)

\* what an observation may change: nothing but the position of the handler
SameOutcome(p, next) ==
    /\ next.flags = flags[p]
    /\ next.computations = computations[p]
    /\ next.log = log[p]

\* C25: transitive_contact is set only by an entry of a known computation
\* with an own TEK on its greylist; observing that again changes no state
\* and raises no second alert; the flag is never reset
C25_TransitiveAlertRule ==
    /\ [](\A p \in Participants :
            /\ flags[p].transitive_contact => SawOwnTekGreylisted(p)
            /\ flags[p].transitive_contact =>
                    \A c \in DOMAIN computations[p] :
                        SameOutcome(p, Reobserved(p, c)))
    /\ [][\A p \in Participants :
            flags[p].transitive_contact => flags'[p].transitive_contact]_vars

C25_Witness ==
    \E p \in Participants :
        /\ flags[p].transitive_contact
        /\ ~flags[p].traced_contact
        /\ log[p].transitive_contact = 1
        /\ loop[p].pc = "idle"
        /\ SawOwnTekGreylisted(p)

(***************************************************************************)
(* Properties of the forwarding chain                                      *)
(***************************************************************************)
\* the forward RPC that on_tek_match of p has at hand (to send, awaited or
\* replied to)
FirstHop(p) == loop[p].pc = "chunks" /\ loop[p].call # NoCall

\* a chunk entry p has been given holds the TEK under the computation id
InProcessedEntry(p, computation_id, tek) == \E i \in 1..Len(sealed) : sealed[i].covers \in processed[p] /\ computation_id \in DOMAIN sealed[i].data /\ tek \in sealed[i].data[computation_id].blacklist \cup sealed[i].data[computation_id].greylist

Inbound(p) == loop[p].pc = "idle" /\ inbox[p] # << >> /\ Head(inbox[p]).type = "NewForwardRequest"

\* the four reasons for which on_tek_forward drops the request
NoBluetoothMatch(p, params) == match_with(bluetooth_layer(p), params.predecessor) = NoMatch

UnknownComputation(p, params) == params.computation_id \notin DOMAIN computations[p]

NotInRedlist(p, params) == ~UnknownComputation(p, params) /\ params.origin # params.predecessor /\ params.predecessor \notin computations[p][params.computation_id].redlist

NoSharedTime(p, params) == match_with(bluetooth_layer(p), params.predecessor).high_risk \cap params.shared_encounter_times = {}

ToBeDropped(p, params) == NoBluetoothMatch(p, params) \/ UnknownComputation(p, params) \/ NotInRedlist(p, params) \/ NoSharedTime(p, params)

\* on_tek_forward of p handles the request at the head of its inbox
Handles(p) == Inbound(p) /\ inbox'[p] = Tail(inbox[p])

\* the caller of the request at the head of p's inbox, if it still awaits the
\* reply, has it
Answered(p) == LET event == Head(inbox[p]) IN event.caller \in Participants /\ loop[event.caller].call = [loop[event.caller].call EXCEPT !.status = "await", !.to = p, !.params = event.params] => loop'[event.caller].call.status = "replied"

\* of p's computations at most the redlist of the request's computation
\* changes, by the predecessor of a first forward that has a bluetooth match
OnlyRedlistInsertion(p, params) == computations'[p] = IF ~NoBluetoothMatch(p, params) /\ ~UnknownComputation(p, params) /\ params.origin = params.predecessor THEN [computations[p] EXCEPT ![params.computation_id].redlist = @ \cup {params.predecessor}] ELSE computations[p]

\* C27: a forward that on_tek_forward drops (no bluetooth match of the
\* predecessor, unknown computation, predecessor not in the redlist, no
\* shared high-risk time) causes no greylist upload and no outbound forward,
\* leaves the successors and the set of computations as they are, and is
\* answered like any other; nothing changes but, at most, the redlist
C27_DroppedForwards ==
    [][\A p \in Participants :
        Handles(p) /\ ToBeDropped(p, Head(inbox[p]).params) =>
            /\ log'[p].uploads = log[p].uploads
            /\ current_chunk' = current_chunk
            /\ log'[p].forwards = log[p].forwards
            /\ loop'[p] = Loop("idle")
            /\ Answered(p)
            /\ DOMAIN computations'[p] = DOMAIN computations[p]
            /\ \A c \in DOMAIN computations[p] : computations'[p][c].successors = computations[p][c].successors
            /\ OnlyRedlistInsertion(p, Head(inbox[p]).params)
            /\ flags'[p] = flags[p]
            /\ \A q \in Participants \ {p} : computations'[q] = computations[q] /\ log'[q] = log[q] /\ inbox'[q] = inbox[q]]_vars

\* a first forward was dropped for want of a shared time after its
\* predecessor went into the redlist, and nothing was uploaded or forwarded
C27_Witness == \E p \in Participants : \E c \in DOMAIN computations[p] : \E d \in log[p].declined : d.computation_id = c /\ d.origin \in computations[p][c].redlist /\ match_with(bluetooth_layer(p), d.origin).high_risk # {} /\ log[p].uploads = {} /\ log[p].forwards = << >> /\ loop[p].pc = "idle" /\ outsiders = 0

\* the redlist of computation c of p, empty if p has no such computation
Redlist(table, c) == IF c \in DOMAIN table THEN table[c].redlist ELSE {}

\* on_tek_forward of p has accepted the request: it uploads to the greylist
\* or goes on to relay
Accepts(p) == Handles(p) /\ (log'[p].uploads # log[p].uploads \/ current_chunk' # current_chunk \/ loop'[p].pc = "forward" \/ log'[p].forwards # log[p].forwards)

\* C28: a forward whose origin is not its predecessor is accepted (uploaded
\* to the greylist or relayed) only if the predecessor is in the redlist of
\* its computation; a TEK enters a redlist only when the participant handles
\* a first forward of that predecessor for that computation; and every TEK
\* of a redlist has a bluetooth match
C28_RedlistAdmission ==
    /\ [](\A p \in Participants : \A c \in DOMAIN computations[p] : \A tek \in computations[p][c].redlist : match_with(bluetooth_layer(p), tek) # NoMatch)
    /\ [][\A p \in Participants :
            /\ Accepts(p) /\ Head(inbox[p]).params.origin # Head(inbox[p]).params.predecessor =>
                    Head(inbox[p]).params.predecessor \in Redlist(computations[p], Head(inbox[p]).params.computation_id)
            /\ \A c \in DOMAIN computations'[p] : \A tek \in computations'[p][c].redlist \ Redlist(computations[p], c) :
                    /\ Handles(p)
                    /\ Head(inbox[p]).params.computation_id = c
                    /\ Head(inbox[p]).params.predecessor = tek
                    /\ Head(inbox[p]).params.origin = tek]_vars

\* the pooling node has announced an origin that was relayed to it by a
\* predecessor of its redlist
C28_Witness == \E p \in Participants : \E upload \in log[p].uploads : upload.computation_id \in DOMAIN computations[p] /\ upload.tek \notin computations[p][upload.computation_id].redlist /\ computations[p][upload.computation_id].redlist # {}

\* the request at the head of p's inbox is a first forward of a predecessor
\* that is in the redlist of its computation already
RepeatedFirstForward(p) == Inbound(p) /\ Head(inbox[p]).params.origin = Head(inbox[p]).params.predecessor /\ Head(inbox[p]).params.predecessor \in Redlist(computations[p], Head(inbox[p]).params.computation_id)

\* C29: no step takes a computation from a participant's table or a TEK from
\* a redlist, and handling a first forward of a predecessor that is in the
\* redlist already leaves the redlist as it is
C29_RedlistMonotone ==
    [][\A p \in Participants :
        /\ \A c \in DOMAIN computations[p] : c \in DOMAIN computations'[p] /\ computations[p][c].redlist \subseteq computations'[p][c].redlist
        /\ Handles(p) /\ RepeatedFirstForward(p) =>
                /\ computations'[p][Head(inbox[p]).params.computation_id].redlist = computations[p][Head(inbox[p]).params.computation_id].redlist
                /\ Cardinality(computations'[p][Head(inbox[p]).params.computation_id].redlist) = Cardinality(computations[p][Head(inbox[p]).params.computation_id].redlist)]_vars

\* a redlist of two TEKs, one of which came with a first forward that was
\* received twice
C29_Witness == \E p \in Participants : \E c \in DOMAIN computations[p] : Cardinality(computations[p][c].redlist) = 2 /\ \E q \in computations[p][c].redlist : Cardinality({i \in 1..Len(log[q].forwards) : log[q].forwards[i].to = p /\ log[q].forwards[i].params = ForwardParams_new(c, q, {1})}) >= 2 /\ inbox[p] = << >> /\ loop[p].pc = "idle"

\* the successors on_tek_forward has still to forward to, the one of the RPC
\* at hand included
Pending(l) == IF l.pc = "forward" THEN l.successors \cup (IF l.call = NoCall THEN {} ELSE {l.call.matched}) ELSE {}

\* the successors of the computation whose high-risk times meet the shared
\* times of this hop
Intersecting(p, params) == {s \in computations[p][params.computation_id].successors : s.high_risk \cap match_with(bluetooth_layer(p), params.predecessor).high_risk \cap params.shared_encounter_times # {}}

\* the pooling node announces the origin, and nothing else, and forwards
\* nothing; the RPC may fail
UploadsOrigin(p, params) == log'[p].uploads = log[p].uploads \cup {[computation_id |-> params.computation_id, tek |-> params.origin]} /\ current_chunk' \in {current_chunk, insert_deduplicated(current_chunk, done_chunks, "Greylist", params.computation_id, {params.origin})} /\ log'[p].forwards = log[p].forwards /\ loop'[p] = Loop("idle")

\* a relaying node uploads nothing and sets out to forward to the
\* intersecting successors
SetsOutToRelay(p, params) == log'[p].uploads = log[p].uploads /\ current_chunk' = current_chunk /\ Pending(loop'[p]) = Intersecting(p, params)

\* a relaying node gives up no successor: only the one whose forward RPC
\* has returned, or has failed, leaves the pending ones
KeepsRelaying(p) == Pending(loop'[p]) \subseteq Pending(loop[p]) /\ \A s \in Pending(loop[p]) \ Pending(loop'[p]) : s = loop[p].call.matched /\ (loop[p].call.status = "replied" => \E i \in 1..Len(log[p].forwards) : log[p].forwards[i] = [to |-> s.connection_identifier, params |-> loop[p].call.params])

\* C30: an accepted forward is either announced to the greylist, with the
\* origin TEK alone and without any forward (own computation), or relayed,
\* without any upload, to exactly the successors whose high-risk times meet
\* the shared times of the hop
C30_UploadOrRelay ==
    [][\A p \in Participants :
        /\ Handles(p) /\ ~ToBeDropped(p, Head(inbox[p]).params) =>
                IF is_own(computations[p][Head(inbox[p]).params.computation_id])
                THEN UploadsOrigin(p, Head(inbox[p]).params)
                ELSE SetsOutToRelay(p, Head(inbox[p]).params)
        /\ loop[p].pc = "forward" => KeepsRelaying(p) /\ log'[p].uploads = log[p].uploads]_vars

\* a relaying node is forwarding to one successor and has another to go,
\* and an RPC may still fail
C30_Witness == \E p \in Participants : loop[p].pc = "forward" /\ loop[p].call.status = "await" /\ loop[p].successors # {} /\ faults > 0

\* on_tek_forward of p has a forward RPC to a successor at hand
Relaying(p) == loop[p].pc = "forward" /\ loop[p].call # NoCall

Contributing(with) ==
    {calls.added[i] : i \in {j \in 1..Len(calls.added) :
        /\ floor_tekrp_multiple(calls.added[j].exposure_time, ContactTekrp)
                = with.valid_from
        /\ calls.added[j].rpi = rpi(with.tek, calls.added[j].exposure_time)}}

\* C32: match_with(candidate) returns Some iff the bucket keyed by
\* candidate.valid_from holds a traced contact whose RPI is the one derived
\* from the candidate for the contact's ENIN; high_risk (low_risk) of the
\* result is exactly the set of ENINs having such a contact of HighRisk
\* (LowRisk) intensity; contacts of other TEKRP windows or with other RPIs
\* never contribute.
C32_MatchWithBucket ==
    \A i \in 1..Len(calls.matched) :
        LET with == calls.matched[i].with
            result == calls.matched[i].result
        IN  /\ ~calls.matched[i].panicked
            /\ (result # NoMatch) <=> (Contributing(with) # {})
            /\ result # NoMatch =>
                /\ result.tek = with.tek
                /\ result.high_risk = {c.exposure_time : c \in
                        {h \in Contributing(with) : h.aem.intensity = "HighRisk"}}
                /\ result.low_risk = {c.exposure_time : c \in
                        {h \in Contributing(with) : h.aem.intensity = "LowRisk"}}
                /\ result.connection_identifier \in
                        {c.aem.connection_identifier : c \in Contributing(with)}

C32_Witness ==
    \E i \in 1..Len(calls.matched) :
        LET with == calls.matched[i].with
            result == calls.matched[i].result
        IN  /\ result.high_risk # {}
            /\ result.low_risk # {}
            /\ \E j \in 1..Len(calls.added) :
                    /\ calls.added[j].rpi = rpi(with.tek, calls.added[j].exposure_time)
                    /\ calls.added[j].exposure_time \notin
                            result.high_risk \cup result.low_risk

(***************************************************************************)
(* Properties of the DiagnosisKeys list                                    *)
(***************************************************************************)
\* the keys that the first n inserts added to the list, and when each came
ArrivedBy(n) == UNION {calls.inserted[i].new : i \in 1..n}

ArrivalTime(key) ==
    calls.inserted[CHOOSE i \in 1..Len(calls.inserted) :
                        key \in calls.inserted[i].new].at

\* the keys a download has to return: those that came after `from` in one
\* of the inserts made before the download
Due(fetch) ==
    {key \in ArrivedBy(fetch.inserts) :
        fetch.from < ArrivalTime(key) /\ ArrivalTime(key) <= fetch.at}

Latest(times) == CHOOSE t \in times : \A u \in times : u <= t

ExactlyTheNewKeys(fetch) ==
    IF Due(fetch) = {}
    THEN fetch.keys = NoneKeys /\ fetch.time = fetch.from
    ELSE /\ fetch.keys = SomeKeys(Due(fetch))
         /\ fetch.time = Latest({ArrivalTime(key) : key \in Due(fetch)})

\* every insert made once the chain of downloads has begun is returned by
\* the downloads that follow it; no key is returned twice; a download that
\* follows no insert returns nothing
ChainedOnce ==
    /\ \A i \in 1..Len(calls.inserted) :
            (calls.inserted[i].fetches >= 1
                /\ calls.inserted[i].fetches < Len(calls.fetched)) =>
                calls.inserted[i].new \subseteq
                    UNION {calls.fetched[j].keys.keys :
                        j \in (calls.inserted[i].fetches + 1)..Len(calls.fetched)}
    /\ \A i, j \in 1..Len(calls.fetched) :
            i # j => calls.fetched[i].keys.keys \cap calls.fetched[j].keys.keys = {}
    /\ \A j \in 2..Len(calls.fetched) :
            calls.fetched[j].inserts = calls.fetched[j - 1].inserts =>
                calls.fetched[j].keys = NoneKeys

\* C33: for any sequence of inserts, get_from(t) returns exactly the keys
\* that arrived after t and not later than now, with the latest such arrival
\* time, or None and t when there are none; chained calls, each with the
\* time the one before returned, return every newly inserted key exactly
\* once and nothing between inserts.
C33_IncrementalDownload ==
    /\ \A j \in 1..Len(calls.fetched) : ExactlyTheNewKeys(calls.fetched[j])
    /\ ChainedOnce

\* the run of the unit test: a first download of the initial batch, then a
\* download of the batch that came later
C33_Witness ==
    /\ Len(calls.fetched) = MaxFetches
    /\ Len(calls.inserted) = 2
    /\ calls.fetched[1].keys = SomeKeys(calls.inserted[1].batch)
    /\ calls.fetched[2].keys = NoneKeys
    /\ calls.fetched[3].keys = SomeKeys(calls.inserted[2].batch)
    /\ calls.fetched[3].time > calls.fetched[2].time

(***************************************************************************)
(* Properties of the periods                                               *)
(***************************************************************************)
\* C34: for every TekRollingPeriod p, Duration::from(p) is p times ten
\* minutes without wrap-around, and for every InfectionPeriod n,
\* as_duration(p) is n times that duration: 24 hours and 14 days for the
\* defaults 144 and 14.
C34_PeriodDurations ==
    key_history.pc \in {"built", "panicked"} =>
        /\ key_history.pc # "panicked"
        /\ Duration_from_tekrp(key_history.tekrp) = key_history.tekrp * 10
        /\ as_duration(key_history.infection_period, key_history.tekrp)
                = key_history.infection_period * (key_history.tekrp * 10)
        /\ key_history.tekrp = 144 =>
                /\ Duration_from_tekrp(key_history.tekrp) = 24 * 60
                /\ as_duration(14, key_history.tekrp) = 14 * 24 * 60

C34_Witness ==
    /\ key_history.pc = "built"
    /\ key_history.tekrp = 144
    /\ key_history.infection_period = MaxInfectionPeriod
    /\ Duration_from_tekrp(key_history.tekrp) = 24 * 60
    /\ as_duration(key_history.infection_period, key_history.tekrp)
            = MaxInfectionPeriod * 24 * 60

(***************************************************************************)
(* Properties of the updater's batches                                     *)
(***************************************************************************)
\* the batches of NewChunks that the participant has not taken yet
Batch(p) ==
    {inbox[p][i] : i \in {j \in 1..Len(inbox[p]) :
                                inbox[p][j].type = "NewChunks"}}

\* C35: each sealed chunk is handed to process_chunk of a participant at
\* most once: with next_from = covers.from of the newest processed chunk
\* and the server leaving out the chunk that contains `from`, no NewChunks
\* batch of a participant contains a chunk that an earlier batch of the
\* participant contained.
C35_ChunkAtMostOnce ==
    \A p \in Participants :
        /\ Cardinality(Batch(p)) <= 1
        /\ \A event \in Batch(p) :
            /\ \A i \in 1..Len(event.chunks) :
                    /\ event.chunks[i].covers \notin processed[p]
                    /\ event.chunks[i] \in SeqSet(sealed)
            /\ \A i, j \in 1..Len(event.chunks) :
                    i # j => event.chunks[i].covers # event.chunks[j].covers
        /\ loop[p].pc = "chunks" =>
                \A i \in 1..Len(loop[p].chunks) :
                    loop[p].chunks[i].covers \notin processed[p]

C35_Witness ==
    \E p \in Participants : \E event \in Batch(p) :
        /\ processed[p] # {}
        /\ event.last_from > rounds[p].first_from
        /\ event.last_from \in {covers.from : covers \in processed[p]}

(***************************************************************************)
(* Properties of the waits between the event loops                         *)
(***************************************************************************)
\* the event loop of p is inside a forward RPC to q and has no reply yet
WaitsFor(p, q) ==
    /\ loop[p].call # NoCall
    /\ loop[p].call.status = "await"
    /\ loop[p].call.to = q

\* C36: no circular wait between participants: there is no reachable state
\* in which a set of participants each waits for a forward reply from another
\* participant of the set.
C36_NoCircularWait ==
    \A waiting \in SUBSET Participants \ {{}} :
        \E p \in waiting : \A q \in waiting : ~WaitsFor(p, q)

\* a participant waits for the reply of one whose event loop is free to
\* take the request
C36_Witness ==
    \E p, q \in Participants :
        /\ WaitsFor(p, q)
        /\ loop[q].pc = "idle"
        /\ inbox[q] # << >>
        /\ Head(inbox[q]).type = "NewForwardRequest"

(***************************************************************************)
(* Properties of a failing first forward                                   *)
(***************************************************************************)
\* the first forward of on_tek_match ends without a reply: the call at hand
\* is gone and was neither sent nor answered in this step
GivenUp(p) ==
    /\ FirstHop(p)
    /\ loop[p].call.status \in {"send", "await"}
    /\ loop'[p].call # loop[p].call
    /\ loop'[p].call # [loop[p].call EXCEPT !.status = "await"]
    /\ loop'[p].call # [loop[p].call EXCEPT !.status = "replied"]

\* the successors a participant has recorded, by computation
Recorded(table) ==
    UNION {{<<c, s.tek>> : s \in table[c].successors} : c \in DOMAIN table}

\* C38: if the first forward sent by on_tek_match fails, the participant's
\* computations table is left unchanged: the matched contact is not added as
\* a successor and no computation entry is created for the id; a successor
\* is recorded only after its forward succeeded.
C38_FailedFirstForward ==
    [][\A p \in Participants :
        /\ GivenUp(p) => computations'[p] = computations[p]
        /\ Recorded(computations'[p]) # Recorded(computations[p]) =>
                /\ FirstHop(p)
                /\ loop[p].call.status = "replied"
                /\ Recorded(computations'[p]) = Recorded(computations[p])
                        \cup {<<loop[p].call.params.computation_id,
                                 loop[p].call.matched.tek>>}]_vars

\* a first forward has failed for a computation the participant has no
\* entry for, and the handler of the batch is through
C38_Witness ==
    \E p \in Participants :
        /\ faults < MaxFaults
        /\ log[p].forwards # << >>
        /\ computations[p] = NoComputations
        /\ loop[p].pc = "idle"
        /\ processed[p] # {}
        /\ \A q \in Participants : q # p => log[q].forwards = << >>

(***************************************************************************)
(* Properties of `listening`                                               *)
(***************************************************************************)
\* the tasks spawned by start() that have not finished
Spawned == {g \in 1..Len(forwarder.tasks) : alive(forwarder.tasks[g])}

\* C39: `listening` reflects the listener task: in every reachable state
\* `listening` is Some if and only if a task spawned by start() is still
\* running its timeout and accept loops; when listen() ends with an error,
\* as when the bind fails, `listening` is cleared, so that a later request()
\* starts a new listener.
C39_ListeningReflectsTask ==
    /\ forwarder.listening # 0 <=> Spawned # {}
    /\ forwarder.listening # 0 => forwarder.listening \in Spawned
    /\ \A g \in 1..Len(forwarder.tasks) :
            forwarder.tasks[g].pc = "failed" => forwarder.listening # g

\* the one task spawned so far runs its loops and `listening` holds its
\* sender
C39_Witness ==
    /\ Len(forwarder.tasks) = 1
    /\ forwarder.listening = 1
    /\ forwarder.bound = 1
    /\ forwarder.tasks[1].pc = "recv"
    /\ forwarder.tasks[1].slept > 0

(***************************************************************************)
(* Properties of the locks of the diagnosis server                         *)
(***************************************************************************)
\* the tasks that hold current_chunk and wait for done_chunks
WaitingForDone ==
    {h \in Handlers : handler[h].pc = "done_chunks"}
        \cup (IF rotator.pc = "lock_done" THEN {"rotator"} ELSE {})

\* current_chunk is locked first, the seed within it, done_chunks last: who
\* waits for or holds done_chunks across an await holds current_chunk
LockOrder ==
    /\ \A h \in Handlers :
            handler[h].pc \in {"seed", "done_chunks"} <=> mutex.current_chunk = h
    /\ rotator.pc \in {"lock_done", "push"} <=> mutex.current_chunk = "rotator"
    /\ mutex.done_chunks # NoTask <=> rotator.pc = "push"
    /\ mutex.done_chunks \in {NoTask, "rotator"}

\* nobody waits for a lock whose holder waits for a lock in turn
NoCyclicWait ==
    /\ Cardinality(WaitingForDone) <= 1
    /\ \A task \in WaitingForDone : mutex.done_chunks \notin WaitingForDone

SuccessorRing(a, b, d) ==
    /\ a # b /\ b # d /\ a # d
    /\ b \in successor_teks(a, 0)
    /\ d \in successor_teks(b, 0)
    /\ a \in successor_teks(d, 0)

\* a forward of one origin has been relayed around the ring and has come back
\* to a participant who still awaits the reply to its own relay of it: each
\* of the three waits ends only when the deadline of its RPC passes, and the
\* request that waits in the inbox is relayed again after that
LapInCycle ==
    \E a, b, d \in Participants \ {"p0"} :
        /\ SuccessorRing(a, b, d)
        /\ WaitsFor(a, b) /\ WaitsFor(b, d) /\ WaitsFor(d, a)
        /\ loop[a].call.params.origin = loop[b].call.params.origin
        /\ loop[b].call.params.origin = loop[d].call.params.origin

====
